---- MODULE Spec2Model ----
(***************************************************************************)
(* The C declaration lexer (src/pdxcp_cdp/cdcl_lexer.c) and the pushdown   *)
(* parser built on it (src/pdxcp_cdp/cdcl_parser.c).                       *)
(*                                                                         *)
(* A character is a one-character string, a stream is a string (the bytes  *)
(* of the file) with a read position and a pushback stack, a token text is *)
(* a string.  The lexer is a set of operators computed as the C functions  *)
(* compute them; the parser is a state machine with one action per loop    *)
(* iteration or straight-line block of pdxcp_cdcl_stream_parse.            *)
(***************************************************************************)
EXTENDS Integers, Sequences, FiniteSets, TLC

VARIABLES
  src,            \* the lexemes the input stream was built from (never read by the program)
  in,             \* FILE *in: NULL or [buf, pos, pb]
  out,            \* FILE *out: NULL or [text, err]
  errinfo,        \* pdxcp_cdcl_parser_errinfo *errinfo: NULL or the record
  pc,             \* position in pdxcp_cdcl_stream_parse (or in the lexer driver)
  stage,          \* the parsing subroutine entered last
  stack,          \* pdxcp_cdcl_token_stack: the tokens, bottom first
  token,          \* the token most recently written by the lexer
  iden_token,     \* the token holding the declared identifier
  lexer_status,   \* status of the last pdxcp_cdcl_get_token call
  parser_status,  \* the local parser_status of pdxcp_cdcl_stream_parse
  n_rparen,       \* number of ')' read after the identifier
  n_lparen,       \* number of '(' popped by stream_parse_ptrs
  has_const,      \* cv flags of the resolution routine that is running
  has_volatile,
  is_signed,      \* sign flags of stream_parse_type
  is_unsigned,
  type_token,     \* the type token of stream_parse_type
  ret,            \* the value pdxcp_cdcl_stream_parse returned
  ncalls,         \* number of pdxcp_cdcl_get_token calls made so far
  call1,          \* NULL in a first call, in a second call what the first left
  vec,            \* pdxcp_bvector: [data, size, capacity]
  vec_n,          \* the pdxcp_bvector of MultiAddTest
  input,          \* the input string of the byte vector tests
  bv_ret,         \* what the byte vector calls made so far returned
  lockable,       \* PDXCP_LKABLE(int): [value, mutex], mutex the owner or 0
  thr,            \* per thread: the call it is in, its arguments and locals
  last_set,       \* the value of the last setter to have released the mutex
  lk_calls        \* number of getter and setter calls made so far

bvector_vars == <<vec, vec_n, input, bv_ret>>

lockable_vars == <<lockable, thr, last_set, lk_calls>>

lib_vars == <<bvector_vars, lockable_vars>>

cdcl_vars == <<src, in, out, errinfo, pc, stage, stack, token, iden_token,
               lexer_status, parser_status, n_rparen, n_lparen, has_const,
               has_volatile, is_signed, is_unsigned, type_token, ret, ncalls,
               call1>>

vars == <<cdcl_vars, lib_vars>>

\* the null pointer; every object pointed to is a record, so is NULL
NULL == [null |-> TRUE]

\* the library objects of a program that uses the lexer and the parser
\* only: none was made
LibIdle ==
  /\ vec = NULL /\ vec_n = NULL /\ input = "" /\ bv_ret = <<>>
  /\ lockable = NULL /\ thr = <<>> /\ last_set = 0 /\ lk_calls = 0

(***************************************************************************)
(* Characters and <ctype.h>                                                *)
(***************************************************************************)
\* the int EOF: no character (every character is a one-character string)
EOF == "EOF"

isspace(c) == c \in {" ", "\t", "\n", "\r"}

isalpha(c) ==
  c \in {"a", "b", "c", "d", "e", "f", "g", "h", "i", "j", "k", "l", "m",
         "n", "o", "p", "q", "r", "s", "t", "u", "v", "w", "x", "y", "z",
         "A", "B", "C", "D", "E", "F", "G", "H", "I", "J", "K", "L", "M",
         "N", "O", "P", "Q", "R", "S", "T", "U", "V", "W", "X", "Y", "Z"}

isdigit(c) == c \in {"0", "1", "2", "3", "4", "5", "6", "7", "8", "9"}

isalnum(c) == isalpha(c) \/ isdigit(c)

\* the i-th character of a string
CharAt(s, i) == SubSeq(s, i, i)

(***************************************************************************)
(* <stdio.h> input: fgetc and ungetc on [buf, pos, pb]                     *)
(***************************************************************************)
\* number of pushed-back characters the C library guarantees room for
PushbackMax == 1

Stream(bytes) == [buf |-> bytes, pos |-> 0, pb |-> <<>>]

\* fgetc: the character pushed back last, else the next of the buffer, else EOF
fgetc(f) ==
  IF f.pb # <<>> THEN [c |-> Head(f.pb), f |-> [f EXCEPT !.pb = Tail(@)]]
  ELSE IF f.pos < Len(f.buf)
    THEN [c |-> CharAt(f.buf, f.pos + 1), f |-> [f EXCEPT !.pos = @ + 1]]
    ELSE [c |-> EOF, f |-> f]

\* ungetc: fails (returns EOF) when the guaranteed pushback room is used up
ungetc(c, f) ==
  IF Len(f.pb) >= PushbackMax THEN [ok |-> FALSE, f |-> f]
  ELSE [ok |-> TRUE, f |-> [f EXCEPT !.pb = <<c>> \o @]]

\* while (isspace(c = fgetc(in))); : the first character that is no space
RECURSIVE SkipSpace(_)
SkipSpace(f) ==
  LET r == fgetc(f) IN IF isspace(r.c) THEN SkipSpace(r.f) ELSE r

(***************************************************************************)
(* The lexer                                                               *)
(***************************************************************************)
PDXCP_CDCL_MAX_TOKEN_LEN == 79

char_token_error(c) == "Unknown character token '" \o c \o "'"
long_token_error == "Token too large: ..."
malformed_num_error == "Malformed token read when attempting to parse number"

pdxcp_cdcl_token_type_string(type) == "pdxcp_cdcl_token_type_" \o type

\* a faulty variant of OverwriteFront: the whole text is replaced
OverwriteWhole(text, msg) == msg

\* memcpy(token->text, long_token_error, sizeof long_token_error - 1): the
\* front of the text is overwritten, the rest and its terminator stay
OverwriteFront(text, msg) == msg \o SubSeq(text, Len(msg) + 1, Len(text))

LexRet(status, tok, f) == [status |-> status, token |-> tok, f |-> f]

\* if (ungetc(c, in) == EOF) return ..._ungetc_fail; return status;
PutBack(u, status, tok) ==
  IF ~u.ok THEN LexRet("ungetc_fail", tok, u.f) ELSE LexRet(status, tok, u.f)

\* a faulty variant of UngetUnlessEOF: the character is dropped
UngetNothing(r) == [ok |-> TRUE, f |-> r.f]

\* a faulty variant of UngetUnlessEOF: the character is pushed back onto a
\* stream that still holds the character pushed back before
UngetOntoUnread(r) ==
  IF r.c # EOF THEN ungetc(r.c, ungetc(r.c, r.f).f) ELSE [ok |-> TRUE, f |-> r.f]

\* if (c != EOF && ungetc(c, in) == EOF): nothing is pushed back at EOF
UngetUnlessEOF(r) ==
  IF r.c # EOF THEN ungetc(r.c, r.f) ELSE [ok |-> TRUE, f |-> r.f]

\* the end of pdxcp_cdcl_get_iden_text and pdxcp_cdcl_get_num_text: the run
\* w.cs was read and ended by w.c, u is the result of pushing w.c back; the
\* token is too large when w.c could still have continued the run
RunEnd(w, u, tok, continues) ==
  IF ~u.ok THEN LexRet("ungetc_fail", [tok EXCEPT !.text = w.cs], u.f)
  ELSE IF continues THEN
    LexRet("bad_token",
           [type |-> "error", text |-> OverwriteFront(w.cs, long_token_error)],
           u.f)
  ELSE LexRet("ok", [tok EXCEPT !.text = w.cs], u.f)

\* the loop of pdxcp_cdcl_get_iden_text: reads on while the character is an
\* identifier character and the text is shorter than the bound
RECURSIVE IdenRun(_, _)
IdenRun(f, cs) ==
  LET r == fgetc(f) IN
  IF (isalnum(r.c) \/ r.c = "_") /\ r.c # EOF
       /\ Len(cs) < PDXCP_CDCL_MAX_TOKEN_LEN
    THEN IdenRun(r.f, cs \o r.c)
    ELSE [cs |-> cs, c |-> r.c, f |-> r.f]

IdenTextEnd(w, tok) ==
  RunEnd(w, UngetUnlessEOF(w), tok, isalnum(w.c) \/ w.c = "_")

\* pdxcp_cdcl_get_iden_text from the first character r.c that is no space
IdenTextFrom(r, tok) ==
  IF r.c = EOF THEN LexRet("fgetc_eof", tok, r.f)
  ELSE IF ~isalpha(r.c) /\ r.c # "_"
    THEN PutBack(ungetc(r.c, r.f), "not_iden", tok)
    ELSE IdenTextEnd(IdenRun(r.f, r.c), tok)

pdxcp_cdcl_get_iden_text(f, tok) == IdenTextFrom(SkipSpace(f), tok)

\* the loop of pdxcp_cdcl_get_num_text
RECURSIVE NumRun(_, _)
NumRun(f, cs) ==
  LET r == fgetc(f) IN
  IF isdigit(r.c) /\ r.c # EOF /\ Len(cs) < PDXCP_CDCL_MAX_TOKEN_LEN
    THEN NumRun(r.f, cs \o r.c)
    ELSE [cs |-> cs, c |-> r.c, f |-> r.f]

NumTextEnd(w, tok) == RunEnd(w, UngetUnlessEOF(w), tok, isdigit(w.c))

\* after a leading '0' one more character z.c was read: 'x' or 'X' is
\* dropped, EOF ends the call, anything else is a malformed number
NumTextAfterZero(z, tok) ==
  IF z.c # "x" /\ z.c # "X" THEN
    IF z.c = EOF THEN LexRet("fgetc_eof", [tok EXCEPT !.text = "0"], z.f)
    ELSE LexRet("bad_token",
                [type |-> "error", text |-> malformed_num_error], z.f)
  ELSE NumTextEnd(NumRun(z.f, "0"), tok)

\* pdxcp_cdcl_get_num_text from the first character r.c that is no space
NumTextFrom(r, tok) ==
  IF r.c = EOF THEN LexRet("fgetc_eof", tok, r.f)
  ELSE IF ~isdigit(r.c) THEN PutBack(ungetc(r.c, r.f), "not_num", tok)
  ELSE IF r.c = "0" THEN NumTextAfterZero(fgetc(r.f), tok)
  ELSE NumTextEnd(NumRun(r.f, r.c), tok)

pdxcp_cdcl_get_num_text(f, tok) == NumTextFrom(SkipSpace(f), tok)

\* a faulty variant of pdxcp_cdcl_set_char_token: the strcpy of the template
\* without the store of c that follows it
SetCharTokenTemplate(tok, c) ==
  CASE c = "(" -> [status |-> "ok", token |-> [type |-> "lparen", text |-> ""]]
    [] c = ")" -> [status |-> "ok", token |-> [type |-> "rparen", text |-> ""]]
    [] c = "[" -> [status |-> "ok", token |-> [type |-> "langle", text |-> ""]]
    [] c = "]" -> [status |-> "ok", token |-> [type |-> "rangle", text |-> ""]]
    [] c = "," -> [status |-> "ok", token |-> [type |-> "comma", text |-> ""]]
    [] c = "/" -> [status |-> "ok", token |-> [type |-> "slash", text |-> ""]]
    [] c = "*" -> [status |-> "ok", token |-> [type |-> "star", text |-> ""]]
    [] c = ";" -> [status |-> "ok", token |-> [type |-> "semicolon", text |-> ""]]
    [] OTHER -> [status |-> "bad_token",
                 token |-> [type |-> "error", text |-> char_token_error("X")]]

pdxcp_cdcl_set_char_token(tok, c) ==
  CASE c = "(" -> [status |-> "ok", token |-> [type |-> "lparen", text |-> ""]]
    [] c = ")" -> [status |-> "ok", token |-> [type |-> "rparen", text |-> ""]]
    [] c = "[" -> [status |-> "ok", token |-> [type |-> "langle", text |-> ""]]
    [] c = "]" -> [status |-> "ok", token |-> [type |-> "rangle", text |-> ""]]
    [] c = "," -> [status |-> "ok", token |-> [type |-> "comma", text |-> ""]]
    [] c = "/" -> [status |-> "ok", token |-> [type |-> "slash", text |-> ""]]
    [] c = "*" -> [status |-> "ok", token |-> [type |-> "star", text |-> ""]]
    [] c = ";" -> [status |-> "ok", token |-> [type |-> "semicolon", text |-> ""]]
    [] OTHER -> [status |-> "bad_token",
                 token |-> [type |-> "error", text |-> char_token_error(c)]]

\* a faulty variant of KeywordType: the start of the text is compared, as
\* strncmp with the length of the keyword would
KeywordTypeByPrefix(text) ==
  LET starts(k) == Len(text) >= Len(k) /\ SubSeq(text, 1, Len(k)) = k IN
  CASE starts("const") -> "q_const"
    [] starts("volatile") -> "q_volatile"
    [] starts("signed") -> "q_signed"
    [] starts("unsigned") -> "q_unsigned"
    [] starts("void") -> "t_void"
    [] starts("char") -> "t_char"
    [] starts("int") -> "t_int"
    [] starts("long") -> "t_long"
    [] starts("float") -> "t_float"
    [] starts("double") -> "t_double"
    [] OTHER -> "iden"

\* the pdxcp_streq chain of pdxcp_cdcl_get_iden_token without struct and enum
KeywordType(text) ==
  CASE text = "const" -> "q_const"
    [] text = "volatile" -> "q_volatile"
    [] text = "signed" -> "q_signed"
    [] text = "unsigned" -> "q_unsigned"
    [] text = "void" -> "t_void"
    [] text = "char" -> "t_char"
    [] text = "int" -> "t_int"
    [] text = "long" -> "t_long"
    [] text = "float" -> "t_float"
    [] text = "double" -> "t_double"
    [] OTHER -> "iden"

\* struct and enum: b is the result of the second identifier read (the tag)
TagToken(b, type) ==
  IF b.status # "ok" THEN b
  ELSE LexRet("ok", [b.token EXCEPT !.type = type], b.f)

\* pdxcp_cdcl_get_iden_token once the identifier text was read with result a
ClassifyIden(a) ==
  IF a.status # "ok" THEN a
  ELSE IF a.token.text \in {"struct", "enum"}
    THEN TagToken(pdxcp_cdcl_get_iden_text(a.f, a.token), a.token.text)
  ELSE IF KeywordType(a.token.text) # "iden"
    THEN LexRet("ok", [type |-> KeywordType(a.token.text), text |-> ""], a.f)
  ELSE LexRet("ok", [a.token EXCEPT !.type = "iden"], a.f)

pdxcp_cdcl_get_iden_token(f, tok) ==
  ClassifyIden(pdxcp_cdcl_get_iden_text(f, tok))

\* a faulty variant of NumToken: the type of the token is not set
NumTokenUntyped(a) == a

NumToken(a) ==
  IF a.status # "ok" THEN a
  ELSE LexRet("ok", [a.token EXCEPT !.type = "num"], a.f)

pdxcp_cdcl_get_num_token(f, tok) == NumToken(pdxcp_cdcl_get_num_text(f, tok))

\* while ((c = fgetc(in)) != EOF && c != '*');
RECURSIVE SkipToStar(_)
SkipToStar(f) ==
  LET r == fgetc(f) IN IF r.c # EOF /\ r.c # "*" THEN SkipToStar(r.f) ELSE r

\* the do-while loop of pdxcp_cdcl_skip_rem_c_comment: r is the '*' (or EOF)
\* the inner loop stopped at, q the character read after it
RECURSIVE pdxcp_cdcl_skip_rem_c_comment(_)
RECURSIVE CommentAfterStar(_)
RECURSIVE CommentAtStar(_)
CommentAfterStar(q) ==
  IF q.c = EOF THEN [status |-> "fgetc_eof", f |-> q.f]
  ELSE IF q.c # "/" THEN pdxcp_cdcl_skip_rem_c_comment(q.f)
  ELSE [status |-> "ok", f |-> q.f]
CommentAtStar(r) ==
  IF r.c = EOF THEN [status |-> "fgetc_eof", f |-> r.f]
  ELSE CommentAfterStar(fgetc(r.f))
pdxcp_cdcl_skip_rem_c_comment(f) == CommentAtStar(SkipToStar(f))

\* while ((c = fgetc(in)) != EOF && c != '\n');
RECURSIVE SkipLine(_)
SkipLine(f) ==
  LET r == fgetc(f) IN IF r.c # EOF /\ r.c # "\n" THEN SkipLine(r.f) ELSE r

CharToken(s, f) == LexRet(s.status, s.token, f)

\* the tail of pdxcp_cdcl_get_token, from the first character r.c of the token
TokenFrom(r, tok) ==
  IF r.c = EOF THEN LexRet("fgetc_eof", tok, r.f)
  ELSE IF isalpha(r.c) \/ r.c = "_" \/ isdigit(r.c) THEN
    IF ~ungetc(r.c, r.f).ok THEN LexRet("ungetc_fail", tok, r.f)
    ELSE IF isdigit(r.c) THEN pdxcp_cdcl_get_num_token(ungetc(r.c, r.f).f, tok)
    ELSE pdxcp_cdcl_get_iden_token(ungetc(r.c, r.f).f, tok)
  ELSE CharToken(pdxcp_cdcl_set_char_token(tok, r.c), r.f)

\* after a comment was skipped (k.status is ok) or not: whitespace is
\* skipped and the character found there starts the token, whatever it is
AfterComment(k, tok) ==
  IF k.status # "ok" THEN LexRet(k.status, tok, k.f)
  ELSE TokenFrom(SkipSpace(k.f), tok)

\* the end of a line comment: l.c is the newline or EOF
LineCommentEnd(l) ==
  [status |-> IF l.c = EOF THEN "fgetc_eof" ELSE "ok", f |-> l.f]

\* the '/' token, the character after it pushed back with result u
SlashToken(u, tok) ==
  IF ~u.ok THEN LexRet("ungetc_fail", tok, u.f)
  ELSE CharToken(pdxcp_cdcl_set_char_token(tok, "/"), u.f)

\* the switch on the character n.c read after a '/'
AfterSlash(n, tok) ==
  IF n.c = "*" THEN AfterComment(pdxcp_cdcl_skip_rem_c_comment(n.f), tok)
  ELSE IF n.c = "/" THEN AfterComment(LineCommentEnd(SkipLine(n.f)), tok)
  ELSE SlashToken(UngetUnlessEOF(n), tok)

\* pdxcp_cdcl_get_token from the first character r.c that is no space
FirstChar(r, tok) ==
  IF r.c = "/" THEN AfterSlash(fgetc(r.f), tok) ELSE TokenFrom(r, tok)

pdxcp_cdcl_get_token(f, tok) ==
  IF f = NULL THEN LexRet("stream_null", tok, f)
  ELSE IF tok = NULL THEN LexRet("token_null", tok, f)
  ELSE FirstChar(SkipSpace(f), tok)

(***************************************************************************)
(* The token stack (cdcl_parser.h)                                         *)
(***************************************************************************)
PDXCP_CDCL_PARSER_STACK_SIZE == 20

PDXCP_CDCL_TOKEN_STACK_EMPTY(s) == Len(s) = 0
\* a faulty variant of PDXCP_CDCL_TOKEN_STACK_FULL: the count is compared
\* with the size of the whole stack object, which it never reaches
StackNeverFull(s) == Len(s) >= PDXCP_CDCL_PARSER_STACK_SIZE * 80 + 8

\* a faulty variant of PDXCP_CDCL_TOKEN_STACK_FULL: > for >=
StackFullOffByOne(s) == Len(s) > PDXCP_CDCL_PARSER_STACK_SIZE

PDXCP_CDCL_TOKEN_STACK_FULL(s) == Len(s) >= PDXCP_CDCL_PARSER_STACK_SIZE
PDXCP_CDCL_TOKEN_STACK_HEAD(s) == s[Len(s)]
PDXCP_CDCL_TOKEN_STACK_PUSH(s, tok) == Append(s, tok)
\* a faulty variant of PDXCP_CDCL_TOKEN_STACK_POP: the count is not decremented
StackPopKeeps(s) == s

PDXCP_CDCL_TOKEN_STACK_POP(s) == SubSeq(s, 1, Len(s) - 1)

(***************************************************************************)
(* Error info                                                              *)
(***************************************************************************)
PDXCP_CDCL_PARSER_ERROR_TEXT_LEN == 255

\* a non-null const char *
CStr(s) == [null |-> FALSE, str |-> s]

\* snprintf(buf, n, ...) of a formatted text: at most n - 1 characters are kept
snprintf(n, text) == IF Len(text) < n THEN text ELSE SubSeq(text, 1, n - 1)

\* char errmsg[PDXCP_CDCL_PARSER_ERROR_TEXT_LEN + 1];
\* snprintf(errmsg, sizeof errmsg - 1, ...)
ErrMsg(text) == CStr(snprintf(PDXCP_CDCL_PARSER_ERROR_TEXT_LEN + 1 - 1, text))

\* a faulty variant of pdxcp_cdcl_write_errinfo: the assignment of
\* errinfo->parser.status is missing
WriteErrinfoKeepsStatus(ei, lstatus, cur_token, pstatus, parser_text) ==
  IF ei = NULL THEN ei
  ELSE [lexer |-> [status |-> lstatus,
                   text |-> IF lstatus = "bad_token" THEN cur_token.text
                            ELSE ""],
        parser |-> [status |-> ei.parser.status,
                    text |-> IF pstatus = "parse_err" /\ parser_text # NULL
                               THEN parser_text.str ELSE ""]]

\* a faulty variant of pdxcp_cdcl_write_errinfo: a text of exactly the
\* largest length is taken as too long
WriteErrinfoCutsAtBound(ei, lstatus, cur_token, pstatus, parser_text) ==
  IF ei = NULL THEN ei
  ELSE
    LET lexer == [status |-> lstatus,
                  text |-> IF lstatus = "bad_token" THEN cur_token.text ELSE ""]
    IN IF pstatus = "parse_err" THEN
         IF parser_text = NULL THEN
           [lexer |-> lexer,
            parser |-> [status |-> "null_err_text", text |-> ""]]
         ELSE IF Len(parser_text.str) >= PDXCP_CDCL_PARSER_ERROR_TEXT_LEN THEN
           [lexer |-> lexer,
            parser |-> [status |-> "err_text_too_long",
                        text |-> SubSeq(parser_text.str, 1,
                                        PDXCP_CDCL_PARSER_ERROR_TEXT_LEN)]]
         ELSE [lexer |-> lexer,
               parser |-> [status |-> pstatus, text |-> parser_text.str]]
       ELSE [lexer |-> lexer, parser |-> [status |-> pstatus, text |-> ""]]

\* a faulty variant of pdxcp_cdcl_write_errinfo: the parser text is left as
\* it was when the parser status is not parse_err
WriteErrinfoKeepsText(ei, lstatus, cur_token, pstatus, parser_text) ==
  IF ei = NULL THEN ei
  ELSE
    LET lexer == [status |-> lstatus,
                  text |-> IF lstatus = "bad_token" THEN cur_token.text ELSE ""]
    IN IF pstatus = "parse_err" THEN
         IF parser_text = NULL THEN
           [lexer |-> lexer,
            parser |-> [status |-> "null_err_text", text |-> ""]]
         ELSE IF Len(parser_text.str) > PDXCP_CDCL_PARSER_ERROR_TEXT_LEN THEN
           [lexer |-> lexer,
            parser |-> [status |-> "err_text_too_long",
                        text |-> SubSeq(parser_text.str, 1,
                                        PDXCP_CDCL_PARSER_ERROR_TEXT_LEN)]]
         ELSE [lexer |-> lexer,
               parser |-> [status |-> pstatus, text |-> parser_text.str]]
       ELSE [lexer |-> lexer,
             parser |-> [status |-> pstatus, text |-> ei.parser.text]]

pdxcp_cdcl_write_errinfo(ei, lstatus, cur_token, pstatus, parser_text) ==
  IF ei = NULL THEN ei
  ELSE
    LET lexer == [status |-> lstatus,
                  text |-> IF lstatus = "bad_token" THEN cur_token.text ELSE ""]
    IN IF pstatus = "parse_err" THEN
         IF parser_text = NULL THEN
           [lexer |-> lexer,
            parser |-> [status |-> "null_err_text", text |-> ""]]
         ELSE IF Len(parser_text.str) > PDXCP_CDCL_PARSER_ERROR_TEXT_LEN THEN
           [lexer |-> lexer,
            parser |-> [status |-> "err_text_too_long",
                        text |-> SubSeq(parser_text.str, 1,
                                        PDXCP_CDCL_PARSER_ERROR_TEXT_LEN)]]
         ELSE [lexer |-> lexer,
               parser |-> [status |-> pstatus, text |-> parser_text.str]]
       ELSE [lexer |-> lexer, parser |-> [status |-> pstatus, text |-> ""]]

\* a faulty variant of pdxcp_cdcl_write_parse_err: no text is passed on
WriteParseErrNoText(ei, parser_text) ==
  pdxcp_cdcl_write_errinfo(ei, "ok", NULL, "parse_err", NULL)

pdxcp_cdcl_write_parse_err(ei, parser_text) ==
  pdxcp_cdcl_write_errinfo(ei, "ok", NULL, "parse_err", parser_text)

(***************************************************************************)
(* Output: fprintf on [text, err].  A call either appends its text or      *)
(* fails (returns a negative value) and sets the stream's error indicator. *)
(***************************************************************************)
NewOut == [text |-> "", err |-> FALSE]

RECURSIVE Concat(_)
Concat(chunks) == IF chunks = <<>> THEN "" ELSE Head(chunks) \o Concat(Tail(chunks))

\* fprintf of each chunk in turn, the first k of them succeeding
fprintf_n(o, chunks, k) ==
  [text |-> o.text \o Concat(SubSeq(chunks, 1, k)),
   err |-> o.err \/ k < Len(chunks)]

\* The output stream of a second call is a fresh stream like that of the
\* first call: if the first call met a write error, the stream takes as
\* many bytes as it took then.  Room(o) is the number it still takes.
Room(o) == Len(call1.out.text) - Len(o.text)

\* of the chunks, the first k are written and no more; any k in a first
\* call, where every fprintf may fail
SameStream(o, chunks, k) ==
  IF call1 = NULL THEN TRUE
  ELSE IF ~call1.out.err THEN k = Len(chunks)
  ELSE /\ Len(Concat(SubSeq(chunks, 1, k))) <= Room(o)
       /\ k < Len(chunks) => Len(Concat(SubSeq(chunks, 1, k + 1))) > Room(o)

(***************************************************************************)
(* The parser's messages                                                   *)
(***************************************************************************)
MsgDupPtrConst == "Duplicate pointer const qualifier"
MsgDupPtrVolatile == "Duplicate pointer volatile qualifier"
\* a faulty variant of MsgPtrsEmpty: the message of stream_parse_type
MsgPtrsEmptyAsMissingType == "Identifier missing required type"

MsgPtrsEmpty ==
  "Unexpectedly ran out of tokens when parsing pointers, missing type"
MsgDupTypeConst == "Duplicate type const qualifier"
MsgDupTypeVolatile == "Duplicate type volatile qualifier"
MsgDupSigned == "Duplicate signed type qualifier"
MsgDupUnsigned == "Duplicate unsigned type qualifier"
MsgUnsignedThenSigned ==
  "Type already qualified as unsigned, cannot re-qualify as signed"
MsgSignedThenUnsigned ==
  "Type already qualified as signed, cannot re-quaifiy as unsigned"
MsgMissingType == "Identifier missing required type"

MsgUnexpectedPtrs(tok) ==
  "Unexpected token type " \o pdxcp_cdcl_token_type_string(tok.type)
    \o " with text \"" \o tok.text \o "\" when parsing pointers"
MsgMismatched(nl, nr) ==
  "Mismatched parentheses when parsing pointers, read " \o ToString(nl)
    \o " '(' " \o ToString(nr) \o " ')'"
MsgTypeTwice(new, old) ==
  "Type " \o pdxcp_cdcl_token_type_string(new) \o
    " provided when identifier already specified as " \o
    pdxcp_cdcl_token_type_string(old)
MsgUnexpectedType(tok) ==
  "Unexpected token type " \o pdxcp_cdcl_token_type_string(tok.type)
    \o " with text \"" \o tok.text \o "\" when parsing identifier type"
MsgSignUnsupported(type) ==
  "Only char, int, or long can be signed or unsigned, received " \o
    pdxcp_cdcl_token_type_string(type)
MsgUnknownType(type) ==
  "Unknown identifier type " \o pdxcp_cdcl_token_type_string(type)
\* a faulty variant of MsgIncomplete: the text of the current token
MsgIncompleteOfCurrent(iden) ==
  "Incomplete declaration for identifier " \o token.text
MsgIncomplete(iden) == "Incomplete declaration for identifier " \o iden.text

(***************************************************************************)
(* Decisions of the resolution routines                                    *)
(***************************************************************************)
\* a faulty variant of AfterStar: the flag outlives the '*'
AfterStarKept(flag) == flag

\* has_const = has_volatile = false; after a '*' has been printed
AfterStar(flag) == FALSE

\* a faulty variant of PtrChunks: volatile is printed before const
PtrChunksVolatileFirst(hc, hv) ==
  (IF hv THEN <<" volatile">> ELSE <<>>) \o (IF hc THEN <<" const">> ELSE <<>>)
    \o <<" pointer to">>

\* what stream_parse_ptrs prints for a '*': the pending qualifiers, then the pointer
PtrChunks(hc, hv) ==
  (IF hc THEN <<" const">> ELSE <<>>) \o (IF hv THEN <<" volatile">> ELSE <<>>)
    \o <<" pointer to">>

\* a faulty variant of ParenMismatch: only too many '(' are reported
ParenMismatchOnlyMore(nl, nr) == nl > nr

\* if (n_lparen != n_rparen)
ParenMismatch(nl, nr) == nl # nr

\* a faulty variant of StackAtReturn: the token that ends the loop is popped
StackAtReturnPopped(s) == PDXCP_CDCL_TOKEN_STACK_POP(s)

\* the stack when the default case of stream_parse_ptrs returns ok: the
\* return comes before the pop that ends the loop body
StackAtReturn(s) == s

\* a faulty variant of PtrsDefault: the parentheses are counted first
PtrsDefaultCountsFirst(hc, hv, nl, nr) ==
  IF ParenMismatch(nl, nr) THEN "mismatched"
  ELSE IF hc \/ hv THEN "unexpected"
  ELSE "ok"

\* the default case of the switch in stream_parse_ptrs: a pending qualifier
\* is looked at before the parentheses are counted
PtrsDefault(hc, hv, nl, nr) ==
  IF hc \/ hv THEN "unexpected"
  ELSE IF ParenMismatch(nl, nr) THEN "mismatched"
  ELSE "ok"

\* the cases of the switch in stream_parse_type that fill the type token.
\* The q_unsigned case has no statement that sets is_unsigned and no break:
\* control falls through into the type cases below it.
TypeTokenTypes ==
  {"struct", "enum", "t_void", "t_char", "t_int", "t_long", "t_float", "t_double"}
FillsTypeToken(type) == type \in TypeTokenTypes \/ type = "q_unsigned"

\* the types of the first switch after the loop of stream_parse_type
SignableTypes == {"t_char", "t_int", "t_long"}

\* what stream_parse_type prints before the type: cv-qualifiers
CvChunks(hc, hv) ==
  (IF hc THEN <<" const">> ELSE <<>>) \o (IF hv THEN <<" volatile">> ELSE <<>>)

\* ... then the sign qualifiers of a char, int or long
SignChunks(sg, us) ==
  (IF sg THEN <<" signed">> ELSE <<>>) \o (IF us THEN <<" unsigned">> ELSE <<>>)

\* ... then the type: the second switch after the loop
TypeNameChunks(tt) ==
  CASE tt.type = "struct" -> <<" struct " \o tt.text>>
    [] tt.type = "enum" -> <<" enum " \o tt.text>>
    [] tt.type = "t_void" -> <<" void">>
    [] tt.type = "t_char" -> <<" char">>
    [] tt.type = "t_int" -> <<" int">>
    [] tt.type = "t_long" -> <<" long">>
    [] tt.type = "t_float" -> <<" float">>
    [] tt.type = "t_double" -> <<" double">>
    [] OTHER -> <<>>
PrintableType(type) == type \in TypeTokenTypes

(***************************************************************************)
(* pdxcp_cdcl_stream_parse as a state machine                              *)
(***************************************************************************)
\* an object with indeterminate contents; the program never reads it
Uninit == "uninit"
UninitToken == [type |-> Uninit, text |-> ""]

\* the error info a caller passes in: whatever an earlier call left there
StaleErrinfo ==
  [lexer |-> [status |-> "bad_token", text |-> "stale"],
   parser |-> [status |-> "parse_err", text |-> "stale"]]

\* a faulty variant of Finish: the error info is not written before the
\* jump to parse_finalize
FinishUnwritten(status, ei) ==
  /\ parser_status' = status
  /\ errinfo' = errinfo
  /\ pc' = "finalize"

\* a faulty variant of Finish: the call ends there, parse_finalize is not
\* reached
FinishAtOnce(status, ei) ==
  /\ parser_status' = status
  /\ errinfo' = ei
  /\ pc' = "done"

\* a routine called by pdxcp_cdcl_stream_parse ends with this status and
\* error info; control goes to parse_finalize
Finish(status, ei) ==
  /\ parser_status' = status
  /\ errinfo' = ei
  /\ pc' = "finalize"

\* one pdxcp_cdcl_get_token call on the input stream
Lex(r) ==
  /\ in' = r.f
  /\ token' = r.token
  /\ lexer_status' = r.status
  /\ ncalls' = ncalls + 1

\* lines 516-525: the stream checks and the stack initialisation
stream_parse_enter ==
  /\ pc = "call"
  /\ IF in = NULL THEN pc' = "done" /\ ret' = "in_null" /\ UNCHANGED <<stage, stack>>
     ELSE IF out = NULL
       THEN pc' = "done" /\ ret' = "out_null" /\ UNCHANGED <<stage, stack>>
       ELSE pc' = "to_iden" /\ stage' = "to_iden" /\ stack' = <<>> /\ UNCHANGED ret
  /\ UNCHANGED <<lib_vars, src, call1, in, out, errinfo, token, iden_token, lexer_status,
                 parser_status, n_rparen, n_lparen, has_const, has_volatile,
                 is_signed, is_unsigned, type_token, ncalls>>

\* one iteration of the loop of stream_parse_to_iden, with what
\* pdxcp_cdcl_stream_parse does when the routine returns (lines 531-536)
stream_parse_to_iden ==
  /\ pc = "to_iden"
  /\ LET r == pdxcp_cdcl_get_token(in, token) IN
     /\ Lex(r)
     /\ IF r.status # "ok" THEN
          /\ parser_status' = "lexer_err"
          /\ errinfo' = pdxcp_cdcl_write_errinfo(errinfo, r.status, r.token,
                                                 "lexer_err", NULL)
          /\ ret' = "lexer_err" /\ pc' = "done"
          /\ UNCHANGED stack
        ELSE IF r.token.type = "iden" THEN
          /\ parser_status' = "ok"
          /\ pc' = "iden"
          /\ UNCHANGED <<errinfo, ret, stack>>
        ELSE IF PDXCP_CDCL_TOKEN_STACK_FULL(stack) THEN
          /\ parser_status' = "token_overflow"
          /\ errinfo' = pdxcp_cdcl_write_errinfo(errinfo, r.status, r.token,
                                                 "token_overflow", NULL)
          /\ ret' = "token_overflow" /\ pc' = "done"
          /\ UNCHANGED stack
        ELSE
          /\ stack' = PDXCP_CDCL_TOKEN_STACK_PUSH(stack, r.token)
          /\ UNCHANGED <<parser_status, errinfo, ret, pc>>
  /\ UNCHANGED <<lib_vars, src, call1, out, stage, iden_token, n_rparen, n_lparen, has_const,
                 has_volatile, is_signed, is_unsigned, type_token>>

\* a faulty variant of n_rparen_init: the declaration has no initialiser
\* and the counter starts with what its storage held
n_rparen_uninit(held) == held

\* unsigned int n_rparen = 0; held is what the storage of the counter held
n_rparen_init(held) == 0

\* lines 537-550: the identifier is copied and written, the next token read
stream_parse_iden ==
  /\ pc = "iden"
  /\ iden_token' = token
  /\ stage' = "post"
  /\ \E written \in BOOLEAN :
       /\ SameStream(out, <<token.text \o ":">>, IF written THEN 1 ELSE 0)
       /\ IF ~written THEN
            /\ out' = fprintf_n(out, <<token.text \o ":">>, 0)
            /\ ret' = "out_err" /\ pc' = "done"
            /\ UNCHANGED <<in, token, lexer_status, ncalls, parser_status,
                           errinfo, n_rparen>>
          ELSE
            /\ out' = fprintf_n(out, <<token.text \o ":">>, 1)
            /\ LET r == pdxcp_cdcl_get_token(in, token) IN
               /\ Lex(r)
               /\ IF r.status # "ok" THEN
                    /\ Finish("lexer_err",
                              pdxcp_cdcl_write_errinfo(errinfo, r.status, r.token,
                                                       "lexer_err", NULL))
                    /\ UNCHANGED n_rparen
                  ELSE
                    /\ n_rparen' = n_rparen_init(n_rparen)
                    /\ pc' = IF r.token.type = "rparen" THEN "rparen" ELSE "decl_end"
                    /\ UNCHANGED <<parser_status, errinfo>>
            /\ UNCHANGED ret
  /\ UNCHANGED <<lib_vars, src, call1, stack, n_lparen, has_const, has_volatile, is_signed,
                 is_unsigned, type_token>>

\* one iteration of the do-while loop that counts ')' (lines 554-564)
stream_parse_rparen ==
  /\ pc = "rparen"
  /\ n_rparen' = n_rparen + 1
  /\ LET r == pdxcp_cdcl_get_token(in, token) IN
     /\ Lex(r)
     /\ IF r.status # "ok" THEN
          Finish("lexer_err",
                 pdxcp_cdcl_write_errinfo(errinfo, r.status, r.token,
                                          "lexer_err", NULL))
        ELSE
          /\ pc' = IF r.token.type = "rparen" THEN "rparen" ELSE "decl_end"
          /\ UNCHANGED <<parser_status, errinfo>>
  /\ UNCHANGED <<lib_vars, src, call1, out, stage, stack, iden_token, n_lparen, has_const,
                 has_volatile, is_signed, is_unsigned, type_token, ret>>

\* lines 566-597: a ';' starts the resolution of the stack, any other token
\* is an incomplete declaration (array specifiers are a TODO in the code)
stream_parse_decl_end ==
  /\ pc = "decl_end"
  /\ IF token.type = "semicolon" THEN
       /\ pc' = "ptrs" /\ stage' = "ptrs"
       /\ has_const' = FALSE /\ has_volatile' = FALSE /\ n_lparen' = 0
       /\ UNCHANGED <<parser_status, errinfo>>
     ELSE
       /\ Finish("parse_err",
                 pdxcp_cdcl_write_errinfo(errinfo, lexer_status, token,
                                          "parse_err",
                                          ErrMsg(MsgIncomplete(iden_token))))
       /\ UNCHANGED <<stage, has_const, has_volatile, n_lparen>>
  /\ UNCHANGED <<lib_vars, src, call1, in, out, stack, token, iden_token, lexer_status,
                 n_rparen, is_signed, is_unsigned, type_token, ret, ncalls>>

\* a faulty variant of ParseErr: without an error info the routine returns
\* before the status is set to parse_err
ParseErrUnlessNull(text) ==
  Finish(IF errinfo = NULL THEN "ok" ELSE "parse_err",
         pdxcp_cdcl_write_parse_err(errinfo, ErrMsg(text)))

\* a parse error of a resolution routine: the error info is written and
\* parse_err returned to pdxcp_cdcl_stream_parse
ParseErr(text) ==
  Finish("parse_err", pdxcp_cdcl_write_parse_err(errinfo, ErrMsg(text)))

\* one iteration of the loop of stream_parse_ptrs, or the code after it
stream_parse_ptrs ==
  /\ pc = "ptrs"
  /\ IF PDXCP_CDCL_TOKEN_STACK_EMPTY(stack) THEN
       /\ ParseErr(MsgPtrsEmpty)
       /\ UNCHANGED <<out, stage, stack, n_lparen, has_const, has_volatile,
                      is_signed, is_unsigned, type_token>>
     ELSE LET head == PDXCP_CDCL_TOKEN_STACK_HEAD(stack) IN
       IF head.type = "q_const" THEN
         IF has_const THEN
           /\ ParseErr(MsgDupPtrConst)
           /\ UNCHANGED <<out, stage, stack, n_lparen, has_const, has_volatile,
                          is_signed, is_unsigned, type_token>>
         ELSE
           /\ has_const' = TRUE
           /\ stack' = PDXCP_CDCL_TOKEN_STACK_POP(stack)
           /\ UNCHANGED <<out, stage, n_lparen, has_volatile, is_signed,
                          is_unsigned, type_token, parser_status, errinfo, pc>>
       ELSE IF head.type = "q_volatile" THEN
         IF has_volatile THEN
           /\ ParseErr(MsgDupPtrVolatile)
           /\ UNCHANGED <<out, stage, stack, n_lparen, has_const, has_volatile,
                          is_signed, is_unsigned, type_token>>
         ELSE
           /\ has_volatile' = TRUE
           /\ stack' = PDXCP_CDCL_TOKEN_STACK_POP(stack)
           /\ UNCHANGED <<out, stage, n_lparen, has_const, is_signed,
                          is_unsigned, type_token, parser_status, errinfo, pc>>
       ELSE IF head.type = "lparen" THEN
         /\ n_lparen' = n_lparen + 1
         /\ stack' = PDXCP_CDCL_TOKEN_STACK_POP(stack)
         /\ UNCHANGED <<out, stage, has_const, has_volatile, is_signed,
                        is_unsigned, type_token, parser_status, errinfo, pc>>
       ELSE IF head.type = "star" THEN
         LET chunks == PtrChunks(has_const, has_volatile) IN
         \E k \in 0..Len(chunks) :
           /\ SameStream(out, chunks, k)
           /\ out' = fprintf_n(out, chunks, k)
           /\ IF k < Len(chunks) THEN
                /\ Finish("out_err", errinfo)
                /\ UNCHANGED <<stack, has_const, has_volatile>>
              ELSE
                /\ has_const' = AfterStar(has_const)
                /\ has_volatile' = AfterStar(has_volatile)
                /\ stack' = PDXCP_CDCL_TOKEN_STACK_POP(stack)
                /\ UNCHANGED <<parser_status, errinfo, pc>>
           /\ UNCHANGED <<stage, n_lparen, is_signed, is_unsigned, type_token>>
       ELSE IF PtrsDefault(has_const, has_volatile, n_lparen, n_rparen)
                 = "unexpected" THEN
         /\ ParseErr(MsgUnexpectedPtrs(head))
         /\ UNCHANGED <<out, stage, stack, n_lparen, has_const, has_volatile,
                        is_signed, is_unsigned, type_token>>
       ELSE IF PtrsDefault(has_const, has_volatile, n_lparen, n_rparen)
                 = "mismatched" THEN
         /\ ParseErr(MsgMismatched(n_lparen, n_rparen))
         /\ UNCHANGED <<out, stage, stack, n_lparen, has_const, has_volatile,
                        is_signed, is_unsigned, type_token>>
       ELSE
         \* stream_parse_ptrs returns ok and stream_parse_type is entered
         /\ pc' = "type" /\ stage' = "type"
         /\ parser_status' = "ok"
         /\ has_const' = FALSE /\ has_volatile' = FALSE
         /\ is_signed' = FALSE /\ is_unsigned' = FALSE
         /\ type_token' = [type |-> "error", text |-> ""]
         /\ stack' = StackAtReturn(stack)
         /\ UNCHANGED <<out, n_lparen, errinfo>>
  /\ UNCHANGED <<lib_vars, src, call1, in, token, iden_token, lexer_status, n_rparen, ret, ncalls>>

\* what the code after the loop of stream_parse_type does with the type
\* token: an error message, or none (the type is printed)
TypeError(tt, sg, us) ==
  IF tt.type \notin SignableTypes /\ (sg \/ us) THEN MsgSignUnsupported(tt.type)
  ELSE IF ~PrintableType(tt.type) THEN MsgUnknownType(tt.type)
  ELSE ""

\* the fprintf calls made after the loop of stream_parse_type, in order; an
\* error of the type stops them after the cv-qualifiers
TypeChunks(tt, hc, hv, sg, us) ==
  IF TypeError(tt, sg, us) # "" THEN CvChunks(hc, hv)
  ELSE CvChunks(hc, hv)
         \o (IF tt.type \in SignableTypes THEN SignChunks(sg, us) ELSE <<>>)
         \o TypeNameChunks(tt)

\* one iteration of the loop of stream_parse_type, or the code after it
stream_parse_type ==
  /\ pc = "type"
  /\ IF PDXCP_CDCL_TOKEN_STACK_EMPTY(stack) THEN
       IF type_token.type = "error" THEN
         /\ ParseErr(MsgMissingType)
         /\ UNCHANGED <<out, stack, has_const, has_volatile, is_signed,
                        is_unsigned, type_token>>
       ELSE
         LET chunks == TypeChunks(type_token, has_const, has_volatile,
                                  is_signed, is_unsigned)
             error == TypeError(type_token, is_signed, is_unsigned)
         IN \E k \in 0..Len(chunks) :
              /\ SameStream(out, chunks, k)
              /\ out' = fprintf_n(out, chunks, k)
              /\ IF k < Len(chunks) THEN Finish("out_err", errinfo)
                 ELSE IF error # "" THEN ParseErr(error)
                 ELSE Finish("ok", errinfo)
              /\ UNCHANGED <<stack, has_const, has_volatile, is_signed,
                             is_unsigned, type_token>>
     ELSE LET head == PDXCP_CDCL_TOKEN_STACK_HEAD(stack) IN
       IF head.type = "q_const" THEN
         IF has_const THEN
           /\ ParseErr(MsgDupTypeConst)
           /\ UNCHANGED <<out, stack, has_const, has_volatile, is_signed,
                          is_unsigned, type_token>>
         ELSE
           /\ has_const' = TRUE
           /\ stack' = PDXCP_CDCL_TOKEN_STACK_POP(stack)
           /\ UNCHANGED <<out, has_volatile, is_signed, is_unsigned,
                          type_token, parser_status, errinfo, pc>>
       ELSE IF head.type = "q_volatile" THEN
         IF has_volatile THEN
           /\ ParseErr(MsgDupTypeVolatile)
           /\ UNCHANGED <<out, stack, has_const, has_volatile, is_signed,
                          is_unsigned, type_token>>
         ELSE
           /\ has_volatile' = TRUE
           /\ stack' = PDXCP_CDCL_TOKEN_STACK_POP(stack)
           /\ UNCHANGED <<out, has_const, is_signed, is_unsigned,
                          type_token, parser_status, errinfo, pc>>
       ELSE IF head.type = "q_signed" THEN
         IF is_signed \/ is_unsigned THEN
           /\ ParseErr(IF is_signed THEN MsgDupSigned ELSE MsgUnsignedThenSigned)
           /\ UNCHANGED <<out, stack, has_const, has_volatile, is_signed,
                          is_unsigned, type_token>>
         ELSE
           /\ is_signed' = TRUE
           /\ stack' = PDXCP_CDCL_TOKEN_STACK_POP(stack)
           /\ UNCHANGED <<out, has_const, has_volatile, is_unsigned,
                          type_token, parser_status, errinfo, pc>>
       ELSE IF head.type = "q_unsigned" /\ (is_unsigned \/ is_signed) THEN
         /\ ParseErr(IF is_unsigned THEN MsgDupUnsigned ELSE MsgSignedThenUnsigned)
         /\ UNCHANGED <<out, stack, has_const, has_volatile, is_signed,
                        is_unsigned, type_token>>
       ELSE IF FillsTypeToken(head.type) THEN
         IF type_token.type # "error" THEN
           /\ ParseErr(MsgTypeTwice(head.type, type_token.type))
           /\ UNCHANGED <<out, stack, has_const, has_volatile, is_signed,
                          is_unsigned, type_token>>
         ELSE
           /\ type_token' = head
           /\ stack' = PDXCP_CDCL_TOKEN_STACK_POP(stack)
           /\ UNCHANGED <<out, has_const, has_volatile, is_signed,
                          is_unsigned, parser_status, errinfo, pc>>
       ELSE
         /\ ParseErr(MsgUnexpectedType(head))
         /\ UNCHANGED <<out, stack, has_const, has_volatile, is_signed,
                        is_unsigned, type_token>>
  /\ UNCHANGED <<lib_vars, src, call1, in, stage, token, iden_token, lexer_status, n_rparen,
                 n_lparen, ret, ncalls>>

\* parse_finalize (lines 600-603): the final newline and the return
stream_parse_finalize ==
  /\ pc = "finalize"
  /\ \E written \in BOOLEAN :
       /\ SameStream(out, <<"\n">>, IF written THEN 1 ELSE 0)
       /\ out' = fprintf_n(out, <<"\n">>, IF written THEN 1 ELSE 0)
       /\ ret' = IF written THEN parser_status ELSE "out_err"
  /\ pc' = "done"
  /\ UNCHANGED <<lib_vars, src, call1, in, errinfo, stage, stack, token, iden_token,
                 lexer_status, parser_status, n_rparen, n_lparen, has_const,
                 has_volatile, is_signed, is_unsigned, type_token, ncalls>>

(***************************************************************************)
(* A caller of the lexer alone: pdxcp_cdcl_get_token is called on one      *)
(* stream until it returns a status other than ok                          *)
(***************************************************************************)
get_token_call ==
  /\ pc = "lex"
  /\ LET r == pdxcp_cdcl_get_token(in, token) IN
     /\ Lex(r)
     /\ pc' = IF r.status = "ok" THEN "lex" ELSE "lex_done"
  /\ UNCHANGED <<lib_vars, src, call1, out, errinfo, stage, stack, iden_token, parser_status,
                 n_rparen, n_lparen, has_const, has_volatile, is_signed,
                 is_unsigned, type_token, ret>>

(***************************************************************************)
(* Inputs.  A declaration is given as its lexemes; the bytes of the stream *)
(* are the lexemes joined, with a space only where two would run together. *)
(***************************************************************************)
MaxPtr == 2       \* pointer levels of the pointer declarations
MaxTypeToks == 2  \* tokens of the type part of the type declarations
MaxParen == 3     \* tokens between the type and a parenthesised identifier
MaxRparen == 2    \* ')' after a parenthesised identifier
MaxTail == 3      \* tokens after the identifier of the tail declarations
MaxStackOver == 1 \* tokens before the identifier beyond the stack size

IsWordChar(c) == isalnum(c) \/ c = "_"

RECURSIVE Join(_)
Join(ls) ==
  IF ls = <<>> THEN ""
  ELSE IF Len(ls) = 1 THEN ls[1]
  ELSE LET a == ls[1]
           b == ls[2]
       IN a \o (IF IsWordChar(CharAt(a, Len(a))) /\ IsWordChar(CharAt(b, 1))
                  THEN " " ELSE "")
            \o Join(Tail(ls))

SeqsUpTo(S, n) == UNION {[1..k -> S] : k \in 0..n}

RECURSIVE Repeat(_, _)
Repeat(x, n) == IF n = 0 THEN <<>> ELSE <<x>> \o Repeat(x, n - 1)

\* the character c, n times
RECURSIVE Fill(_, _)
Fill(c, n) ==
  IF n <= 0 THEN ""
  ELSE IF n % 2 = 1 THEN c \o Fill(c, n - 1)
  ELSE LET half == Fill(c, n \div 2) IN half \o half

CvLex == {"const", "volatile"}
BaseLex == {"void", "char", "int", "long", "float", "double",
            "struct s", "enum e", "struct my_struct", "struct my_struct_1",
            "enum my_enum", "enum new_enum"}
IdenLex == {"x", "y", "z", "a", "b", "c", "d", "hello", "yyy", "abc", "def", "arr"}

CvRuns == {<<>>, <<"const">>, <<"volatile">>, <<"const", "volatile">>,
           <<"volatile", "const">>, <<"const", "const">>}

RECURSIVE PtrRuns(_)
PtrRuns(n) ==
  IF n = 0 THEN {<<>>}
  ELSE {p \o <<"*">> \o cv : p \in PtrRuns(n - 1), cv \in CvRuns}

\* [cv]* base (* [cv]*)* x ;
PtrDecls ==
  {cv \o <<base>> \o p \o <<"x", ";">> :
     cv \in CvRuns, base \in {"int", "struct s"},
     p \in UNION {PtrRuns(n) : n \in 0..MaxPtr}}

\* a run of sign qualifiers, cv-qualifiers and base types, zero or one '*', x ;
TypeDecls ==
  {t \o p \o <<"x", ";">> :
     t \in SeqsUpTo({"signed", "unsigned", "const", "char", "int", "long",
                     "double", "void", "float", "struct s", "enum e"},
                    MaxTypeToks),
     p \in {<<>>, <<"*">>}}

\* parenthesised declarators: [int] {( * const}* x )* ;
ParenDecls ==
  {b \o m \o <<"x">> \o Repeat(")", k) \o <<";">> :
     b \in {<<>>, <<"int">>},
     m \in SeqsUpTo({"(", "*", "const"}, MaxParen),
     k \in 0..MaxRparen}

\* what may follow the identifier
TailDecls ==
  {b \o <<"x">> \o t :
     b \in {<<"int">>, <<"int", "(", "*">>},
     t \in SeqsUpTo({"[", "]", "100", ";", "y", ")", "*"}, MaxTail)}

\* the declarations of test/cdcl_parser_test.cc and of the specification
Examples ==
  {<<"int", "*", "*", "x", ";">>,
   <<"double", "*", "y", ";">>,
   <<"struct my_struct_1", "*", "*", "z", ";">>,
   <<"const", "int", "*", "const", "a", ";">>,
   <<"volatile", "void", "*", "volatile", "*", "const", "b", ";">>,
   <<"const", "enum my_enum", "*", "*", "const", "*", "const", "volatile", "c", ";">>,
   <<"int", "(", "*", "*", "(", "*", "b", ")", ")", ";">>,
   <<"const", "volatile", "double", "(", "*", "*", "c", ")", ";">>,
   <<"volatile", "struct my_struct", "*", "*", "(", "(", "*", "(", "d", ")", ")", ")", ";">>,
   <<"double", "*", "x", "[", "100", "]", ";">>,
   <<"unsigned", "int", "*", "arr", "[", "10", "]", "[", "100", "]", ";">>,
   <<"const", "unsigned", "char", "*", "*", "b", "[", "]", "[", "50", "]", ";">>,
   <<"struct my_struct", "*", "const", "*", "b", "[", "100", "]", ";">>,
   <<"volatile", "enum new_enum", "(", "*", "*", "const", "*", "c", ")", "[", "90", "]", ";">>,
   <<"int", "*", "*", ";">>,
   <<"int", "a">>,
   <<"*", "y", ";">>,
   <<"double", "*", "yyy", "*", "x", ";">>,
   <<"enum my_enum", "*", "[", "const", "volatile", "abc", ";">>,
   <<"struct my_struct", "*", "[", "def", ";">>,
   <<"const", "double", "(", "(", "*", "*", "(", "*", "x", ")", ")", ";">>,
   <<"const", "volatile", "int", "(", "(", "*", "*", "(", "*", "x", ")", ")", ")", ")", ")", ";">>,
   <<"volatile", "void", "*", "x", "[", "100", "[", "]", ";">>,
   <<"const", "double", "*", "*", "y", "[", "]", "1000", "]", ";">>,
   <<"unsigned", "int", "z", "[", "88", "]", "]", "]", ";">>,
   <<"double", "*", "*", "a", "[", "100", "]", "[", "]", ";">>,
   <<"const", "double", "b", "[", "100", "]", "(", ";">>,
   <<"const", "double", "b", "[", "100", "]", "[", "50", "]">>,
   <<"unsigned", "char", "*", "const", "*", "const", "y", ";">>,
   <<"int", "hello", ";">>}

\* about as many tokens before the identifier as the token stack holds
StackDecls ==
  {h \o Repeat(t, n - Len(h)) \o tail :
     h \in {<<>>, <<"int">>, <<"const", "int">>}, t \in {"*", "("},
     n \in (PDXCP_CDCL_PARSER_STACK_SIZE - 1)
             ..(PDXCP_CDCL_PARSER_STACK_SIZE + MaxStackOver),
     tail \in {<<"x", ";">>, <<"x", "y">>, <<";">>, <<>>, <<"@">>}}

\* lexemes the lexer refuses: a character that starts no token, a number
\* with a leading zero, struct without a tag, an identifier of 80 characters
BadLex == {"@", "09", "struct", "struct *", "enum ;", Fill("a", 80)}

\* a refused lexeme before the identifier, after it, and after a ')'
BadDecls ==
  {p \o <<b>> \o q :
     p \in {<<>>, <<"int">>, <<"int", "*">>, <<"int", "x">>,
            <<"int", "(", "x", ")">>, <<"int", "(", "x", ")", ")">>},
     b \in BadLex, q \in {<<>>, <<";">>}}

\* qualifiers repeated at one level, across a '(' and at two levels
QualDecls ==
  {<<"int", "*", "volatile", "volatile", "x", ";">>,
   <<"int", "*", "volatile", "*", "volatile", "x", ";">>,
   <<"int", "*", "volatile", "const", "volatile", "x", ";">>,
   <<"int", "*", "const", "(", "const", "x", ")", ";">>,
   <<"volatile", "volatile", "int", "x", ";">>,
   <<"volatile", "const", "volatile", "int", "*", "volatile", "*",
     "volatile", "x", ";">>,
   <<"volatile", "int", "*", "volatile", "x", ";">>}

\* the longest message the parser can build: a tag of the largest length
\* before a qualifier
LongTag == "struct " \o Fill("s", PDXCP_CDCL_MAX_TOKEN_LEN)

LongTagDecls == {<<LongTag, "const", "x", ";">>, <<LongTag, "*", "x", ";">>}

DeclInputs ==
  PtrDecls \cup TypeDecls \cup ParenDecls \cup TailDecls \cup Examples
    \cup StackDecls \cup BadDecls \cup QualDecls \cup LongTagDecls

(***************************************************************************)
(* The specification of one pdxcp_cdcl_stream_parse call                   *)
(***************************************************************************)
InitLocals ==
  /\ stage = "none"
  /\ stack = <<>>
  /\ token = UninitToken
  /\ iden_token = UninitToken
  /\ lexer_status = Uninit
  /\ parser_status = Uninit
  /\ n_rparen = 0
  /\ n_lparen = 0
  /\ has_const = FALSE
  /\ has_volatile = FALSE
  /\ is_signed = FALSE
  /\ is_unsigned = FALSE
  /\ type_token = UninitToken
  /\ ret = "none"
  /\ ncalls = 0

Init ==
  /\ \/ /\ src \in DeclInputs
        /\ in = Stream(Join(src))
        /\ out = NewOut
     \/ /\ src \in Examples
        /\ in = Stream(Join(src))
        /\ out = NULL
     \/ /\ src = <<>>
        /\ in = NULL
        /\ out \in {NULL, NewOut}
  /\ errinfo \in {NULL, StaleErrinfo}
  /\ pc = "call"
  /\ InitLocals
  /\ call1 = NULL
  /\ LibIdle

Next ==
  \/ stream_parse_enter
  \/ stream_parse_to_iden
  \/ stream_parse_iden
  \/ stream_parse_rparen
  \/ stream_parse_decl_end
  \/ stream_parse_ptrs
  \/ stream_parse_type
  \/ stream_parse_finalize

Spec == Init /\ [][Next]_vars

(***************************************************************************)
(* pdxcp_cdcl_write_errinfo alone: one call with an error info, the        *)
(* statuses of the lexer and the parser, the current token and a message   *)
(* (src holds the message; it is empty for a null message)                 *)
(***************************************************************************)
MaxErrOver == 2   \* characters of a message beyond the error text length

\* messages about as long as the parser text, and some of the parser's own
ErrTexts ==
  {Fill(c, n) : c \in {"m", "?"},
                n \in {0, 1} \cup
                  (PDXCP_CDCL_PARSER_ERROR_TEXT_LEN - 2)
                    ..(PDXCP_CDCL_PARSER_ERROR_TEXT_LEN + MaxErrOver)}
    \cup {MsgPtrsEmpty, MsgMissingType, MsgDupPtrConst, MsgMismatched(1, 2)}

ErrInit ==
  /\ src \in {<<>>} \cup {<<t>> : t \in ErrTexts}
  /\ errinfo \in {NULL, StaleErrinfo}
  /\ pc = "write"
  /\ InitLocals
  /\ call1 = NULL
  /\ LibIdle
  /\ in = NULL /\ out = NULL

write_errinfo_call ==
  /\ pc = "write"
  /\ \E ls \in {"ok", "fgetc_eof", "bad_token"},
        ps \in {"parse_err", "lexer_err", "token_overflow"},
        tok \in {UninitToken,
                 [type |-> "error", text |-> char_token_error("@")]} :
       /\ lexer_status' = ls /\ parser_status' = ps /\ token' = tok
       /\ errinfo' = pdxcp_cdcl_write_errinfo(
                        errinfo, ls, tok, ps,
                        IF src = <<>> THEN NULL ELSE CStr(src[1]))
  /\ pc' = "written"
  /\ UNCHANGED <<lib_vars, src, call1, in, out, stage, stack, iden_token, n_rparen,
                 n_lparen, has_const, has_volatile, is_signed, is_unsigned,
                 type_token, ret, ncalls>>

ErrNext == write_errinfo_call

ErrSpec == ErrInit /\ [][ErrNext]_vars

(***************************************************************************)
(* Two calls in a row: a caller parses a declaration and then a fresh copy *)
(* of it, writing to a fresh output stream like the first.  The locals of  *)
(* the second call start indeterminate: they hold what the first left.     *)
(***************************************************************************)
PairInputs == Examples \cup BadDecls \cup ParenDecls \cup StackDecls

PairInit ==
  /\ \/ /\ src \in PairInputs
        /\ in = Stream(Join(src))
        /\ out = NewOut
     \/ /\ src = <<"int", "hello", ";">>
        /\ in \in {NULL, Stream(Join(src))}
        /\ out = NULL
  /\ errinfo \in {NULL, StaleErrinfo}
  /\ pc = "call"
  /\ InitLocals
  /\ call1 = NULL
  /\ LibIdle

\* the caller's second call: a fresh copy of the input, a fresh output
\* stream, and an error info that is null, left by an earlier call, or the
\* one the first call was given
second_call ==
  /\ pc = "done" /\ call1 = NULL
  /\ call1' = [ret |-> ret, in |-> in, out |-> out, errinfo |-> errinfo]
  /\ in' = IF in = NULL THEN NULL ELSE Stream(Join(src))
  /\ out' = IF out = NULL THEN NULL ELSE NewOut
  /\ errinfo' \in {NULL, StaleErrinfo, errinfo}
  /\ pc' = "call" /\ ret' = "none" /\ stage' = "none" /\ ncalls' = 0
  /\ UNCHANGED <<lib_vars, src, stack, token, iden_token, lexer_status,
                 parser_status, n_rparen, n_lparen, has_const, has_volatile,
                 is_signed, is_unsigned, type_token>>

PairNext == Next \/ second_call

PairSpec == PairInit /\ [][PairNext]_vars

(***************************************************************************)
(* Two declarations on one stream: a caller parses the second declaration  *)
(* alone, then the first from a stream that holds both, then calls again   *)
(* on that same stream.  call1 keeps the results of the call on the second *)
(* alone and, in its field first, those of the call on the first.  The     *)
(* calls on the stream of both write without error.                        *)
(***************************************************************************)
\* declarations read up to their ';', resolved with and without error
FirstDecls ==
  {<<"int", "x", ";">>,
   <<"const", "int", "*", "const", "a", ";">>,
   <<"int", "(", "*", "x", ")", ";">>,
   <<"const", "const", "int", "x", ";">>,
   <<"int", "x", ")", ";">>,
   <<"*", "y", ";">>}

\* what follows the first declaration
SecondDecls ==
  {<<>>, <<"double", "*", "y", ";">>, <<"const", "int", "*", "const", "a", ";">>,
   <<"int", "(", "*", "*", "(", "*", "b", ")", ")", ";">>,
   <<"int", "y">>, <<"int", "*", "@">>, <<"y", ";">>, <<";">>,
   <<"int", "const", "z", ";">>, <<"/* a */", "int", "z", ";">>}

SeqInputs ==
  {d \o sep \o e : d \in FirstDecls, sep \in {<<>>, <<"\n">>}, e \in SecondDecls}

\* the first declaration of the stream, what follows it, and the second
\* declaration without the newline that may stand before it
FirstSemi ==
  CHOOSE i \in DOMAIN src :
    src[i] = ";" /\ \A j \in 1..(i - 1) : src[j] # ";"
FirstDecl == SubSeq(src, 1, FirstSemi)
AfterFirst == SubSeq(src, FirstSemi + 1, Len(src))
SecondDecl ==
  IF AfterFirst # <<>> /\ AfterFirst[1] = "\n" THEN Tail(AfterFirst)
  ELSE AfterFirst

SeqInit ==
  /\ src \in SeqInputs
  /\ in = Stream(Join(SecondDecl))
  /\ out = NewOut
  /\ errinfo \in {NULL, StaleErrinfo}
  /\ pc = "call"
  /\ InitLocals
  /\ call1 = NULL
  /\ LibIdle

\* a new call: these streams and error info, the locals as they were left
NewCall(f, o, ei) ==
  /\ in' = f
  /\ out' = o
  /\ errinfo' = ei
  /\ pc' = "call" /\ ret' = "none" /\ stage' = "none" /\ ncalls' = 0
  /\ UNCHANGED <<lib_vars, src, stack, token, iden_token, lexer_status,
                 parser_status, n_rparen, n_lparen, has_const, has_volatile,
                 is_signed, is_unsigned, type_token>>

\* the call on the stream that holds both declarations
stream_of_two_call ==
  /\ pc = "done" /\ call1 = NULL /\ ~out.err
  /\ call1' = [ret |-> ret, in |-> in, out |-> out, errinfo |-> errinfo,
               first |-> NULL]
  /\ NewCall(Stream(Join(src)), NewOut, errinfo)

\* the next call on the same stream, left where the call before left it
stream_of_two_next_call ==
  /\ pc = "done" /\ call1 # NULL /\ call1.first = NULL
  /\ call1' = [call1 EXCEPT
                 !.first = [ret |-> ret, in |-> in, out |-> out,
                            errinfo |-> errinfo]]
  /\ NewCall(in, NewOut,
             IF call1.errinfo = NULL THEN NULL ELSE StaleErrinfo)

SeqNext == Next \/ stream_of_two_call \/ stream_of_two_next_call

SeqSpec == SeqInit /\ [][SeqNext]_vars

(***************************************************************************)
(* The specification of a caller of the lexer alone                        *)
(***************************************************************************)
MaxLexLen == 5    \* characters of the short texts
MaxOver == 2      \* characters of a long identifier beyond the token bound

LexAlphabet == {" ", "\n", "/", "*", "a"}

RECURSIVE Texts(_)
Texts(n) ==
  IF n = 0 THEN {""}
  ELSE LET T == Texts(n - 1) IN T \cup {t \o c : t \in T, c \in LexAlphabet}

\* identifiers of about the largest token length
LongIdens ==
  {Fill(h, k) \o Fill(c, n - k) :
     h \in {"a", "_"}, k \in {1, 20, 21}, c \in {"a", "b", "7"},
     n \in (PDXCP_CDCL_MAX_TOKEN_LEN - 1)..(PDXCP_CDCL_MAX_TOKEN_LEN + MaxOver)}

\* the words the lexer knows, and words that only look like them
WordLex ==
  {"const", "volatile", "signed", "unsigned", "void", "char", "int", "long",
   "float", "double", "struct", "enum"}

NearWords ==
  {w \o x : w \in WordLex, x \in {"x", "1", "_"}}
    \cup {SubSeq(w, 1, Len(w) - 1) : w \in WordLex}
    \cup {"Int", "CONST", "_int", "my_struct_1", "_e2", "x"}

\* one word, alone or followed by another lexeme
WordInputs ==
  {<<w>> : w \in WordLex \cup NearWords}
    \cup {<<w, l>> : w \in WordLex \cup {"intx", "structx", "x"},
                     l \in {"my_struct_1", "_e2", "int", "x", "*", ";"}}

\* characters that start no token, numbers, and numbers of about the
\* largest token length
UnknownChars == {"@", "#", "$", "=", "{", "-", "'"}

NumLex ==
  {"0", "7", "12", "09", "0x", "0x1F", "0X10", "0@", "00"}
    \cup {Fill("1", n) :
            n \in (PDXCP_CDCL_MAX_TOKEN_LEN - 1)..(PDXCP_CDCL_MAX_TOKEN_LEN + MaxOver)}

\* one of these alone, after another lexeme or a comment, or before one
CharInputs ==
  {<<c>> : c \in UnknownChars \cup NumLex}
    \cup {<<p, c>> : p \in {"x", "int", "*", "(", " \n", "/* a */", "// a\n", "/"},
                     c \in UnknownChars \cup NumLex}
    \cup {<<c, q>> : c \in UnknownChars \cup NumLex, q \in {"x", ";", "]", " "}}
    \cup {<<"/", "12", "]">>, <<"[", "100", "]", "[", "0", "]">>}

\* block comments whose body ends in one or more '*', a token after them
CommentInputs ==
  {<<"/*" \o b \o Fill("*", n) \o "/" \o r>> :
     b \in {"", " a ", "a"}, n \in 1..4, r \in {"", "a", " *", "\nab"}}

\* a tag keyword, its tag and what follows
TagInputs ==
  {<<k, t, l>> : k \in {"struct", "enum"}, t \in {"x", "my_struct_1"},
                 l \in {";", "*", "y", "/", "/* a */", "7"}}

LexInputs ==
  {<<t>> : t \in Texts(MaxLexLen)}
    \cup TagInputs
    \cup CommentInputs
    \cup {<<l>> : l \in LongIdens}
    \cup {<<k, l>> : k \in {"struct", "enum"}, l \in LongIdens}
    \cup WordInputs
    \cup CharInputs

LexInit ==
  /\ src \in LexInputs
  /\ in = Stream(Join(src))
  /\ out = NULL
  /\ errinfo = NULL
  /\ pc = "lex"
  /\ InitLocals
  /\ call1 = NULL
  /\ LibIdle

LexNext == get_token_call

LexSpec == LexInit /\ [][LexNext]_vars

(***************************************************************************)
(* A caller of either routine that lets the call run on: the program is    *)
(* sequential, so a step that can be taken is taken.                       *)
(***************************************************************************)
\* every input of the parser and of the lexer
TermInit == Init \/ LexInit

TermNext == Next \/ LexNext

\* A call that reads a token can take its step exactly while it is at that
\* step: every read changes ncalls.
AtLex == pc = "lex"
AtToIden == pc = "to_iden"
AtRparen == pc = "rparen"

\* Weak fairness of every step.  For the three steps that read a token the
\* condition is written out, WF_vars(A) being
\* []<>~(ENABLED <<A>>_vars) \/ []<><<A>>_vars, with the step's position
\* for its enabling condition.
TermSpec ==
  /\ TermInit
  /\ [][TermNext]_vars
  /\ WF_vars(stream_parse_enter)
  /\ ([]<>~AtToIden \/ []<><<stream_parse_to_iden>>_vars)
  /\ WF_vars(stream_parse_iden)
  /\ ([]<>~AtRparen \/ []<><<stream_parse_rparen>>_vars)
  /\ WF_vars(stream_parse_decl_end)
  /\ WF_vars(stream_parse_ptrs)
  /\ WF_vars(stream_parse_type)
  /\ WF_vars(stream_parse_finalize)
  /\ ([]<>~AtLex \/ []<><<get_token_call>>_vars)

(***************************************************************************)
(* The dynamic byte vector (src/pdxcp/bvector.c).  data is the sequence of *)
(* the size bytes stored; the rest of the allocation is never read.  A     *)
(* size_t sum or product cannot wrap here: the vector and the buffer added *)
(* are objects in memory, and realloc gives no more than MaxAlloc bytes.   *)
(***************************************************************************)
PDXCP_BVECTOR_ZERO_EXPAND_SIZE == 16

MaxAlloc == 128   \* bytes of the largest allocation realloc can give
MaxExpands == 4   \* reallocs that can find the memory in one call

pdxcp_bvector_init == [data |-> "", size |-> 0, capacity |-> 0]

BvRet(ok, v) == [ok |-> ok, vec |-> v]

\* a faulty variant of NewCapacity: the capacity grows by a fixed step
NewCapacityByStep(v) == v.capacity + PDXCP_BVECTOR_ZERO_EXPAND_SIZE

\* size_t new_capacity = (!vec->capacity) ? ... : 2 * vec->capacity;
NewCapacity(v) ==
  IF v.capacity = 0 THEN PDXCP_BVECTOR_ZERO_EXPAND_SIZE ELSE 2 * v.capacity

\* pdxcp_bvector_expand; mem tells whether realloc finds the memory
pdxcp_bvector_expand(v, mem) ==
  IF ~mem \/ NewCapacity(v) > MaxAlloc THEN BvRet(FALSE, v)
  ELSE BvRet(TRUE, [v EXCEPT !.capacity = NewCapacity(v)])

\* vec->data[vec->size++] = c;
StoreByte(e, c) ==
  IF ~e.ok THEN e
  ELSE BvRet(TRUE, [e.vec EXCEPT !.data = @ \o c, !.size = @ + 1])

pdxcp_bvector_add(v, c, mem) ==
  IF v.size = v.capacity THEN StoreByte(pdxcp_bvector_expand(v, mem), c)
  ELSE StoreByte(BvRet(TRUE, v), c)

\* the loop condition of pdxcp_bvector_add_n
NeedsRoom(v, buf_size) == v.capacity <= v.size + buf_size

\* the while loop of pdxcp_bvector_add_n; realloc finds the memory nmem
\* times and then no more
RECURSIVE ExpandLoop(_, _, _)
ExpandLoop(v, buf_size, nmem) ==
  IF ~NeedsRoom(v, buf_size) THEN BvRet(TRUE, v)
  ELSE IF ~pdxcp_bvector_expand(v, nmem > 0).ok THEN BvRet(FALSE, v)
  ELSE ExpandLoop(pdxcp_bvector_expand(v, nmem > 0).vec, buf_size, nmem - 1)

\* memcpy(vec->data + vec->size, buf, buf_size); vec->size += buf_size;
StoreBuf(e, buf) ==
  IF ~e.ok THEN e
  ELSE BvRet(TRUE, [e.vec EXCEPT !.data = @ \o buf, !.size = @ + Len(buf)])

pdxcp_bvector_add_n(v, buf, nmem) ==
  StoreBuf(ExpandLoop(v, Len(buf), nmem), buf)

(***************************************************************************)
(* Lockable types (include/pdxcp/lockable.h): the getter and the by-value  *)
(* setter of PDXCP_LKABLE(int), called by several threads on one lockable  *)
(* whose mutex was made with PTHREAD_MUTEX_INITIALIZER.  A call is a       *)
(* sequence of steps of its thread: the argument check, the lock, the      *)
(* access, the unlock and the return.                                      *)
(***************************************************************************)
EINVAL == 22
EAGAIN == 11
EDEADLK == 35

\* the errors pthread_mutex_lock can return; none leaves the mutex locked
LockErrors == {EINVAL, EAGAIN, EDEADLK}

NThreads == 2     \* threads
MaxLkCalls == 2   \* calls the threads make in all
MaxValue == 1     \* the values stored are 0..MaxValue

Threads == 1..NThreads
Values == 0..MaxValue

\* a faulty variant of GetArgsNull: only the lockable is checked
GetArgsNullLockableOnly(lk, outp) == ~lk

\* if (!lockable || !out) of the getter; lk and outp tell whether the
\* pointers are non-null
GetArgsNull(lk, outp) == ~lk \/ ~outp

\* if (!lockable) of the setter
SetArgsNull(lk) == ~lk

ArgsNull(call, lk, outp) ==
  IF call = "get" THEN GetArgsNull(lk, outp) ELSE SetArgsNull(lk)

\* a faulty variant of AfterCheck: the setter does not lock
SetterSkipsLock(call) == IF call = "set" THEN "access" ELSE "lock"

\* the statement after the argument check
AfterCheck(call) == "lock"

\* thread u is inside a call of the given kind
InCall(u, call) == thr[u].pc # "idle" /\ thr[u].call = call

\* a thread that is in no call: out is the variable it passes to the getter
Idle ==
  [pc |-> "idle", call |-> "none", lk |-> TRUE, outp |-> TRUE, in |-> 0,
   out |-> 0, status |-> 0, ret |-> 0, base |-> 0, during |-> {}]

LkInit ==
  /\ lockable \in [value : Values, mutex : {0}]
  /\ thr = [t \in Threads |-> Idle]
  /\ last_set = lockable.value
  /\ lk_calls = 0
  /\ vec = NULL /\ vec_n = NULL /\ input = "" /\ bv_ret = <<>>
  /\ src = <<>> /\ in = NULL /\ out = NULL /\ errinfo = NULL /\ pc = "lockable"
  /\ InitLocals
  /\ call1 = NULL

\* thread t enters a call and checks its arguments; base and during record
\* for a getter what the setters had done and were doing when it started
lkable_call(t) ==
  /\ thr[t].pc = "idle" /\ lk_calls < MaxLkCalls
  /\ lk_calls' = lk_calls + 1
  /\ \E call \in {"get", "set"}, lk \in BOOLEAN, outp \in BOOLEAN, v \in Values :
       /\ call = "get" => v = 0
       /\ call = "set" => outp
       /\ thr' = [u \in Threads |->
                   IF u = t THEN
                     [thr[t] EXCEPT
                        !.call = call, !.lk = lk, !.outp = outp, !.in = v,
                        !.status = 0,
                        !.pc = IF ArgsNull(call, lk, outp) THEN "return"
                               ELSE AfterCheck(call),
                        !.ret = IF ArgsNull(call, lk, outp) THEN -EINVAL ELSE 0,
                        !.base = last_set,
                        !.during = {thr[w].in : w \in {x \in Threads : InCall(x, "set")}}]
                   ELSE IF call = "set" /\ ~ArgsNull(call, lk, outp)
                             /\ InCall(u, "get")
                     THEN [thr[u] EXCEPT !.during = @ \cup {v}]
                   ELSE thr[u]]
  /\ UNCHANGED <<cdcl_vars, bvector_vars, lockable, last_set>>

\* status = pthread_mutex_lock(&lockable->mutex): the thread waits while
\* another holds the mutex; the lock is taken, or fails with an error
lkable_lock(t) ==
  /\ thr[t].pc = "lock"
  /\ \E e \in {0} \cup LockErrors :
       IF e = 0
         THEN /\ lockable.mutex = 0
              /\ lockable' = [lockable EXCEPT !.mutex = t]
              /\ thr' = [thr EXCEPT ![t].pc = "access", ![t].status = 0]
         ELSE /\ thr' = [thr EXCEPT ![t].pc = "return", ![t].status = e,
                                    ![t].ret = -e]
              /\ UNCHANGED lockable
  /\ UNCHANGED <<cdcl_vars, bvector_vars, last_set, lk_calls>>

\* another thread is at its access too: a data race, any value results
Raced(t) == \E u \in Threads \ {t} : thr[u].pc = "access"

\* *out = lockable->value;  or  lockable->value = in;
lkable_access(t) ==
  /\ thr[t].pc = "access"
  /\ \E x \in Values :
       /\ ~Raced(t) => x = IF thr[t].call = "get" THEN lockable.value
                                                 ELSE thr[t].in
       /\ IF thr[t].call = "get"
            THEN /\ thr' = [thr EXCEPT ![t].pc = "unlock", ![t].out = x]
                 /\ UNCHANGED lockable
            ELSE /\ thr' = [thr EXCEPT ![t].pc = "unlock"]
                 /\ lockable' = [lockable EXCEPT !.value = x]
  /\ UNCHANGED <<cdcl_vars, bvector_vars, last_set, lk_calls>>

\* pthread_mutex_unlock(&lockable->mutex), which the owner's call cannot fail
lkable_unlock(t) ==
  /\ thr[t].pc = "unlock"
  /\ lockable' = [lockable EXCEPT !.mutex = IF @ = t THEN 0 ELSE @]
  /\ thr' = [thr EXCEPT ![t].pc = "return", ![t].ret = -0]
  /\ last_set' = IF thr[t].call = "set" THEN lockable.value ELSE last_set
  /\ UNCHANGED <<cdcl_vars, bvector_vars, lk_calls>>

\* the call returns thr[t].ret to its caller; its arguments and locals end
lkable_return(t) ==
  /\ thr[t].pc = "return"
  /\ thr' = [thr EXCEPT ![t] = [Idle EXCEPT !.out = thr[t].out]]
  /\ UNCHANGED <<cdcl_vars, bvector_vars, lockable, last_set, lk_calls>>

LkNext ==
  \E t \in Threads :
    \/ lkable_call(t)
    \/ lkable_lock(t)
    \/ lkable_access(t)
    \/ lkable_unlock(t)
    \/ lkable_return(t)

LkSpec == LkInit /\ [][LkNext]_vars

(***************************************************************************)
(* A caller of the byte vector: after pdxcp_bvector_init it calls          *)
(* pdxcp_bvector_expand, pdxcp_bvector_add and pdxcp_bvector_add_n in any  *)
(* order; bv_ret holds the name and the result of each call made           *)
(***************************************************************************)
MaxBvCalls == 4   \* calls made on one vector
MaxBuf == 17      \* bytes of the longer buffers added in one call

BvBufs == {Fill("b", n) : n \in {0, 1, MaxBuf - 2, MaxBuf - 1, MaxBuf, 3 * MaxBuf}}

BvInit ==
  /\ vec = pdxcp_bvector_init
  /\ vec_n = NULL
  /\ input = ""
  /\ bv_ret = <<>>
  /\ lockable = NULL /\ thr = <<>> /\ last_set = 0 /\ lk_calls = 0
  /\ src = <<>> /\ in = NULL /\ out = NULL /\ errinfo = NULL /\ pc = "bvector"
  /\ InitLocals
  /\ call1 = NULL

BvCall(name, r) ==
  /\ Len(bv_ret) < MaxBvCalls
  /\ vec' = r.vec
  /\ bv_ret' = Append(bv_ret, [call |-> name, ok |-> r.ok])
  /\ UNCHANGED <<cdcl_vars, lockable_vars, vec_n, input>>

bvector_expand_call ==
  \E mem \in BOOLEAN : BvCall("expand", pdxcp_bvector_expand(vec, mem))

bvector_add_call ==
  \E c \in {"a", "b"}, mem \in BOOLEAN :
    BvCall("add", pdxcp_bvector_add(vec, c, mem))

bvector_add_n_call ==
  \E buf \in BvBufs, nmem \in 0..MaxExpands :
    BvCall("add_n", pdxcp_bvector_add_n(vec, buf, nmem))

BvNext == bvector_expand_call \/ bvector_add_call \/ bvector_add_n_call

BvSpec == BvInit /\ [][BvNext]_vars

(***************************************************************************)
(* The byte vector tests: SingleAddTest adds the input to one vector a     *)
(* byte at a time, MultiAddTest adds it to another in one call             *)
(***************************************************************************)
MaxBytes == 40    \* bytes of the longest input made of one character

BvInputs ==
  {Fill(c, n) : c \in {"a", "b"}, n \in 0..MaxBytes}
    \cup {"the quick fox jumps over the brown dog", "short string",
          "once upon a time there was a particular oft-used stock phrase"}

BvTestInit ==
  /\ input \in BvInputs
  /\ vec = pdxcp_bvector_init
  /\ vec_n = pdxcp_bvector_init
  /\ bv_ret = <<>>
  /\ lockable = NULL /\ thr = <<>> /\ last_set = 0 /\ lk_calls = 0
  /\ src = <<>> /\ in = NULL /\ out = NULL /\ errinfo = NULL /\ pc = "test"
  /\ InitLocals
  /\ call1 = NULL

\* one turn of the loop of SingleAddTest; a call that fails ends the test
SingleAddTest ==
  /\ vec.size < Len(input)
  /\ \A i \in 1..Len(bv_ret) : bv_ret[i].test = "single" => bv_ret[i].ok
  /\ \E mem \in BOOLEAN :
       LET r == pdxcp_bvector_add(vec, CharAt(input, vec.size + 1), mem) IN
       /\ vec' = r.vec
       /\ bv_ret' = Append(SelectSeq(bv_ret, LAMBDA x : x.test # "single"),
                           [test |-> "single", ok |-> r.ok])
  /\ UNCHANGED <<cdcl_vars, lockable_vars, vec_n, input>>

MultiAddTest ==
  /\ \A i \in 1..Len(bv_ret) : bv_ret[i].test # "multi"
  /\ \E nmem \in 0..MaxExpands :
       LET r == pdxcp_bvector_add_n(vec_n, input, nmem) IN
       /\ vec_n' = r.vec
       /\ bv_ret' = Append(bv_ret, [test |-> "multi", ok |-> r.ok])
  /\ UNCHANGED <<cdcl_vars, lockable_vars, vec, input>>

BvTestNext == SingleAddTest \/ MultiAddTest

BvTestSpec == BvTestInit /\ [][BvTestNext]_vars

(***************************************************************************)
(* Declarations as sequences of lexemes: what a declaration is and what    *)
(* its description reads, stated on the lexemes alone                      *)
(***************************************************************************)
Count(s, x) == Cardinality({i \in DOMAIN s : s[i] = x})

\* the first position of s holding an element of S, 0 if there is none
FirstIn(s, S) ==
  IF \E i \in DOMAIN s : s[i] \in S
    THEN CHOOSE i \in DOMAIN s : s[i] \in S /\ \A j \in 1..(i - 1) : s[j] \notin S
    ELSE 0

\* the last position of s holding an element that is not in S, 0 if none
LastNotIn(s, S) ==
  IF \E i \in DOMAIN s : s[i] \notin S
    THEN CHOOSE i \in DOMAIN s :
           s[i] \notin S /\ \A j \in (i + 1)..Len(s) : s[j] \in S
    ELSE 0

\* the last position of s holding x, 0 if there is none
LastOf(s, x) ==
  IF \E i \in DOMAIN s : s[i] = x
    THEN CHOOSE i \in DOMAIN s : s[i] = x /\ \A j \in (i + 1)..Len(s) : s[j] # x
    ELSE 0

\* the number of consecutive x in s from position i on
RECURSIVE CountRun(_, _, _)
CountRun(s, i, x) ==
  IF i <= Len(s) /\ s[i] = x THEN 1 + CountRun(s, i + 1, x) ELSE 0

Without(s, x) == SelectSeq(s, LAMBDA l : l # x)

PtrLex == {"*", "(", "const", "volatile"}

\* the position of the declared identifier, 0 if there is none
IdenAt(s) == FirstIn(s, IdenLex)

\* the position of the first lexeme after the identifier and the ')' run
AfterIden(s) == IdenAt(s) + CountRun(s, IdenAt(s) + 1, ")") + 1

\* the tokens before the identifier all find room on the token stack
FitsStack(s) == IdenAt(s) - 1 <= PDXCP_CDCL_PARSER_STACK_SIZE

\* the identifier, any run of ')', then ';'
EndsDecl(s) ==
  IdenAt(s) >= 1 /\ AfterIden(s) <= Len(s) /\ s[AfterIden(s)] = ";"

\* the qualifiers of one level, const first
QualText(run) ==
  (IF Count(run, "const") > 0 THEN " const" ELSE "")
    \o (IF Count(run, "volatile") > 0 THEN " volatile" ELSE "")

NoRepeatQual(run) == Count(run, "const") <= 1 /\ Count(run, "volatile") <= 1

\* the pointer levels of p, the one nearest the identifier first; each
\* level is a '*' with the qualifiers that follow it
RECURSIVE PtrText(_)
PtrText(p) ==
  IF LastOf(p, "*") = 0 THEN ""
  ELSE QualText(SubSeq(p, LastOf(p, "*") + 1, Len(p))) \o " pointer to"
         \o PtrText(SubSeq(p, 1, LastOf(p, "*") - 1))

\* no qualifier is repeated at one level of p
RECURSIVE LevelsNoRepeat(_)
LevelsNoRepeat(p) ==
  IF LastOf(p, "*") = 0 THEN NoRepeatQual(p)
  ELSE NoRepeatQual(SubSeq(p, LastOf(p, "*") + 1, Len(p)))
         /\ LevelsNoRepeat(SubSeq(p, 1, LastOf(p, "*") - 1))

\* p is (* [const|volatile]*)*
IsPtrPart(p) ==
  /\ \A i \in DOMAIN p : p[i] \in {"*", "const", "volatile"}
  /\ (p # <<>> => p[1] = "*")
  /\ LevelsNoRepeat(p)

\* s is [const|volatile]* <base type> (* [const|volatile]*)* <identifier> ;
\* with its base type at position b
IsPlainDeclAt(s, b) ==
  /\ Len(s) >= 3 /\ s[Len(s)] = ";" /\ s[Len(s) - 1] \in IdenLex
  /\ b >= 1 /\ b <= Len(s) - 2
  /\ \A i \in 1..(b - 1) : s[i] \in CvLex
  /\ NoRepeatQual(SubSeq(s, 1, b - 1))
  /\ IsPtrPart(SubSeq(s, b + 1, Len(s) - 2))

IsPlainDecl(s) == IsPlainDeclAt(s, FirstIn(s, BaseLex))

\* the description of a plain declaration, sign standing before its base type
DeclTextAt(s, b, sign) ==
  s[Len(s) - 1] \o ":" \o PtrText(SubSeq(s, b + 1, Len(s) - 2))
    \o QualText(SubSeq(s, 1, b - 1)) \o sign \o " " \o s[b] \o "\n"

DeclText(s, sign) == DeclTextAt(s, FirstIn(s, BaseLex), sign)

IsNum(l) == Len(l) >= 1 /\ \A i \in 1..Len(l) : isdigit(CharAt(l, i))

\* t is one or more array specifiers [bound]; only the first may lack its bound
RECURSIVE ArrayDims(_, _)
ArrayDims(t, first) ==
  IF t = <<>> THEN ~first
  ELSE IF Len(t) >= 3 /\ t[1] = "[" /\ IsNum(t[2]) /\ t[3] = "]"
    THEN ArrayDims(SubSeq(t, 4, Len(t)), FALSE)
  ELSE IF first /\ Len(t) >= 2 /\ t[1] = "[" /\ t[2] = "]"
    THEN ArrayDims(SubSeq(t, 3, Len(t)), FALSE)
  ELSE FALSE

\* the call has returned and every write to the output stream succeeded
Returned == pc = "done" /\ out # NULL /\ ~out.err

\* the error info, when the caller passed one, holds these parser fields
ParserInfoIs(status, text) ==
  errinfo # NULL => errinfo.parser = [status |-> status, text |-> text]

(***************************************************************************)
(* C1: unsigned with char, int or long                                     *)
(***************************************************************************)
\* s holds one `unsigned` in its type part and is a plain declaration of a
\* char, int or long without it
HasUnsigned(s) ==
  /\ Count(s, "unsigned") = 1
  /\ FirstIn(s, {"unsigned"}) < FirstIn(s, {"*"} \cup IdenLex)
  /\ IsPlainDecl(Without(s, "unsigned"))
  /\ Without(s, "unsigned")[FirstIn(Without(s, "unsigned"), BaseLex)]
       \in {"char", "int", "long"}

\* C1: for a declaration whose type part holds `unsigned` together with a
\* base type of char, int or long, pdxcp_cdcl_stream_parse returns ok and
\* writes ` unsigned` immediately before the base type (every write to the
\* output succeeding); `unsigned char *const *const y;` gives
\* `y: const pointer to const pointer to unsigned char` and a newline.
C1_UnsignedIsWritten ==
  (Returned /\ HasUnsigned(src)) =>
    (ret = "ok" /\ out.text = DeclText(Without(src, "unsigned"), " unsigned"))

LineEnd(s, i) ==
  IF \E j \in i..Len(s) : CharAt(s, j) = "\n"
    THEN CHOOSE j \in i..Len(s) :
           CharAt(s, j) = "\n" /\ \A k \in i..(j - 1) : CharAt(s, k) # "\n"
    ELSE Len(s)

\* s[j - 1 .. j] is a star and a slash
ClosesAt(s, j) == CharAt(s, j - 1) = "*" /\ CharAt(s, j) = "/"

\* the position of the '/' closing the block comment whose text starts at
\* i, 0 if it is not closed
BlockEnd(s, i) ==
  IF \E j \in (i + 1)..Len(s) : ClosesAt(s, j)
    THEN CHOOSE j \in (i + 1)..Len(s) :
           ClosesAt(s, j) /\ \A k \in (i + 1)..(j - 1) : ~ClosesAt(s, k)
    ELSE 0

\* s from position i on is made of whitespace, line comments and closed
\* block comments only
RECURSIVE IsBlank(_, _)
IsBlank(s, i) ==
  IF i > Len(s) THEN TRUE
  ELSE IF isspace(CharAt(s, i)) THEN IsBlank(s, i + 1)
  ELSE IF CharAt(s, i) # "/" \/ i = Len(s) THEN FALSE
  ELSE IF CharAt(s, i + 1) = "/" THEN IsBlank(s, LineEnd(s, i + 2) + 1)
  ELSE IF CharAt(s, i + 1) = "*"
    THEN BlockEnd(s, i + 2) # 0 /\ IsBlank(s, BlockEnd(s, i + 2) + 1)
  ELSE FALSE

\* C3: for every input made only of whitespace, line comments and closed
\* block comments, the first call to pdxcp_cdcl_get_token returns fgetc_eof
\* (and so neither ok nor bad_token).
C3_BlankInputIsEndOfInput ==
  (ncalls = 1 /\ Len(src) = 1 /\ IsBlank(src[1], 1)) => lexer_status = "fgetc_eof"

(***************************************************************************)
(* C4, C5, C6: array specifiers and the end of the input                   *)
(***************************************************************************)
\* a plain declaration with array specifiers between its identifier and ';'
IsArrayDecl(s) ==
  /\ IdenAt(s) >= 1 /\ s[Len(s)] = ";"
  /\ ArrayDims(SubSeq(s, IdenAt(s) + 1, Len(s) - 1), TRUE)
  /\ IsPlainDecl(SubSeq(s, 1, IdenAt(s)) \o <<";">>)

\* C4: a declaration whose identifier is followed by one or more array
\* specifiers [bound] (the first bound may be missing) and then `;` is
\* parsed with status ok (stated for declarations without parentheses and
\* sign qualifiers, e.g. `double *x[100];`).
C4_ArrayDeclParsed == (Returned /\ IsArrayDecl(src)) => ret = "ok"

MsgArrayDupLeft == "Array specifier contains duplicate left angle bracket"
MsgArraySizeNoLeft ==
  "Array specifier size read without matching left angle bracket"
MsgArrayNoLeft == "Array specifier missing matching left angle bracket"
MsgArrayNoBound ==
  "Multidimensional array specifier must have bounds for all dimensions except for the first"

\* the message of the first malformed shape in the array specifiers t, read
\* with a `[` open or not, its bound read or not, after dims dimensions;
\* the empty text if there is none
RECURSIVE ArrayError(_, _, _, _)
ArrayError(t, open, bound, dims) ==
  IF t = <<>> THEN ""
  ELSE IF t[1] = "[" THEN
    IF open THEN MsgArrayDupLeft ELSE ArrayError(Tail(t), TRUE, FALSE, dims)
  ELSE IF IsNum(t[1]) THEN
    IF ~open THEN MsgArraySizeNoLeft ELSE ArrayError(Tail(t), TRUE, TRUE, dims)
  ELSE IF t[1] = "]" THEN
    IF ~open THEN MsgArrayNoLeft
    ELSE IF ~bound /\ dims >= 1 THEN MsgArrayNoBound
    ELSE ArrayError(Tail(t), FALSE, FALSE, dims + 1)
  ELSE ""

\* the array specifiers of s start right after its identifier
ArrayPart(s) == SubSeq(s, IdenAt(s) + 1, Len(s))

StartsArray(s) ==
  IdenAt(s) >= 1 /\ IdenAt(s) < Len(s) /\ s[IdenAt(s) + 1] \in {"[", "]"}

\* C5: in the array specifiers after the identifier, a second `[` before
\* the matching `]`, a bound with no `[` before it, a `]` with no matching
\* `[` and a missing bound on a dimension after the first each fail with
\* parse_err and a message of their own.
C5_ArrayErrorsTold ==
  (Returned /\ StartsArray(src) /\ ArrayError(ArrayPart(src), FALSE, FALSE, 0) # "")
    => (ret = "parse_err"
        /\ ParserInfoIs("parse_err", ArrayError(ArrayPart(src), FALSE, FALSE, 0)))

\* the input ends before the declaration is complete: there is no
\* identifier, or the identifier is the last token, or only array
\* specifiers follow the identifier
EndsEarly(s) ==
  \/ s # <<>> /\ IdenAt(s) = 0
  \/ IdenAt(s) >= 1 /\ IdenAt(s) = Len(s)
  \/ IdenAt(s) >= 1 /\ ArrayDims(ArrayPart(s), TRUE)

\* C6: if the input ends before the declaration is complete,
\* pdxcp_cdcl_stream_parse returns lexer_err and the error info holds lexer
\* status fgetc_eof and parser status lexer_err: with no identifier read
\* (`int **;`), with the identifier as last token (`int a`) and after array
\* specifiers (`const double b[100][50]`).
C6_EarlyEndIsLexerError ==
  (Returned /\ EndsEarly(src)) =>
    /\ ret = "lexer_err"
    /\ errinfo # NULL =>
         (errinfo.lexer.status = "fgetc_eof" /\ errinfo.parser.status = "lexer_err")

(***************************************************************************)
(* C7: parentheses                                                         *)
(***************************************************************************)
\* the lexemes stream_parse_ptrs pops before it meets one that is no
\* pointer lexeme: those between the type at position t and the identifier
PtrPartAfter(s, t) == SubSeq(s, t + 1, IdenAt(s) - 1)

TypeEnd(s) == LastNotIn(SubSeq(s, 1, IdenAt(s) - 1), PtrLex)

\* the qualifiers pending when the lexeme before p is met: those of p that
\* stand before its first '*'
Pending(p) ==
  IF FirstIn(p, {"*"}) = 0 THEN QualText(p)
  ELSE QualText(SubSeq(p, 1, FirstIn(p, {"*"}) - 1))

\* pointer resolution of s reaches a lexeme that is no pointer lexeme, with
\* no qualifier pending and none repeated on the way
ReachesType(s) ==
  /\ EndsDecl(s)
  /\ TypeEnd(s) >= 1
  /\ LevelsNoRepeat(PtrPartAfter(s, TypeEnd(s)))
  /\ Pending(PtrPartAfter(s, TypeEnd(s))) = ""

\* the declaration s up to its ';' without its parentheses
Unparenthesised(s) ==
  Without(Without(SubSeq(s, 1, AfterIden(s)), "("), ")")

\* what C7 says of the declaration s with pointer part p, L '(' in it and
\* R ')' after the identifier
ParenOutcome(s, p, L, R) ==
  IF L # R THEN
    /\ ret = "parse_err" /\ stage = "ptrs"
    /\ ParserInfoIs("parse_err",
                    "Mismatched parentheses when parsing pointers, read "
                      \o ToString(L) \o " '(' " \o ToString(R) \o " ')'")
    /\ out.text = s[IdenAt(s)] \o ":" \o PtrText(p) \o "\n"
  ELSE
    /\ stage = "type"
    /\ IsPlainDecl(Unparenthesised(s)) =>
         (ret = "ok" /\ out.text = DeclText(Unparenthesised(s), ""))

\* C7: when pointer resolution reaches the first token that is not const,
\* volatile, ( or * with no qualifier pending, it fails with parse_err
\* `Mismatched parentheses when parsing pointers, read L '(' R ')'` exactly
\* when the number L of '(' popped differs from the number R of ')' read
\* after the identifier; when L equals R parsing goes on to the type and
\* the parentheses add nothing to the output (every write succeeding, the
\* tokens before the identifier being at most the 20 the stack holds).
C7_ParenthesesBalanced ==
  (Returned /\ ReachesType(src) /\ FitsStack(src)) =>
    ParenOutcome(src, PtrPartAfter(src, TypeEnd(src)),
                 Count(PtrPartAfter(src, TypeEnd(src)), "("),
                 CountRun(src, IdenAt(src) + 1, ")"))

\* three '(' against two ')' have been reported
C7_Witness ==
  /\ Returned
  /\ src = <<"const", "double", "(", "(", "*", "*", "(", "*", "x", ")", ")", ";">>
  /\ ret = "parse_err"
  /\ errinfo # NULL
  /\ errinfo.parser.text =
       "Mismatched parentheses when parsing pointers, read 3 '(' 2 ')'"

(***************************************************************************)
(* C8: no type before the identifier                                       *)
(***************************************************************************)
\* every lexeme before the identifier is a pointer lexeme and the
\* identifier, after any ')', is followed by ';'
OnlyPtrsBeforeIden(s) ==
  EndsDecl(s) /\ \A j \in 1..(IdenAt(s) - 1) : s[j] \in PtrLex

MissingTypeTold ==
  /\ ret = "parse_err"
  /\ ParserInfoIs("parse_err",
                  "Unexpectedly ran out of tokens when parsing pointers, missing type")

\* C8 as stated: if every token before the identifier is one of *, (,
\* const, volatile (or there is none) and the identifier is followed by ;,
\* pdxcp_cdcl_stream_parse returns parse_err with the text `Unexpectedly
\* ran out of tokens when parsing pointers, missing type`.
C8_MissingTypeAlways ==
  (Returned /\ OnlyPtrsBeforeIden(src)) => MissingTypeTold

\* C8, amended: the same, provided no const and no volatile stands twice
\* at one pointer level and the tokens before the identifier are at most
\* the 20 the stack holds (every write to the output succeeding).
C8_MissingType ==
  (Returned /\ OnlyPtrsBeforeIden(src) /\ FitsStack(src)
     /\ LevelsNoRepeat(SubSeq(src, 1, IdenAt(src) - 1)))
    => MissingTypeTold

\* a declaration of pointer lexemes only, a qualifier pending at the end
C8_Witness ==
  /\ Returned
  /\ src = <<"(", "*", "const", "x", ")", ";">>
  /\ ret = "parse_err"
  /\ errinfo # NULL
  /\ errinfo.parser.text =
       "Unexpectedly ran out of tokens when parsing pointers, missing type"

(***************************************************************************)
(* C9: incomplete declarations                                             *)
(***************************************************************************)
\* a lexeme other than ';' that the lexer does not refuse follows the
\* identifier and its ')' run
IsIncomplete(s) ==
  /\ IdenAt(s) >= 1 /\ AfterIden(s) <= Len(s)
  /\ s[AfterIden(s)] \notin {";"} \cup BadLex

\* C9: if the first token after the identifier and after any run of ) is
\* read without lexer error and is not ;, pdxcp_cdcl_stream_parse returns
\* parse_err with the text `Incomplete declaration for identifier <name>`,
\* <name> being the first identifier read, and no token of the stack is
\* resolved: the output is the name, a colon and the final newline (the
\* tokens before the identifier being at most the 20 the stack holds).
C9_IncompleteDeclaration ==
  (Returned /\ IsIncomplete(src) /\ FitsStack(src)) =>
    /\ ret = "parse_err"
    /\ ParserInfoIs("parse_err",
                    "Incomplete declaration for identifier " \o src[IdenAt(src)])
    /\ Len(stack) = IdenAt(src) - 1
    /\ out.text = src[IdenAt(src)] \o ":\n"

\* a second identifier stood where ';' was expected
C9_Witness ==
  /\ Returned
  /\ src = <<"double", "*", "yyy", "*", "x", ";">>
  /\ ret = "parse_err"
  /\ errinfo # NULL
  /\ errinfo.parser.text = "Incomplete declaration for identifier yyy"
  /\ out.text = "yyy:\n"

(***************************************************************************)
(* C10: identifiers longer than the token text                             *)
(***************************************************************************)
\* l is an identifier: a letter or '_', then letters, digits and '_'
IsIdenLexeme(l) ==
  /\ Len(l) >= 1
  /\ isalpha(CharAt(l, 1)) \/ CharAt(l, 1) = "_"
  /\ \A i \in 1..Len(l) : IsWordChar(CharAt(l, i))

\* the input is one identifier, or struct or enum and a tag, and the first
\* call of the lexer has returned
LexedIden ==
  /\ ncalls = 1
  /\ \/ Len(src) = 1
     \/ Len(src) = 2 /\ src[1] \in {"struct", "enum"}
  /\ IsIdenLexeme(src[Len(src)])

\* the type of the token an identifier or tag gives
IdenType == IF Len(src) = 2 THEN src[1] ELSE "iden"

\* C10 as stated: an identifier or tag of more than 79 characters makes
\* pdxcp_cdcl_get_token return bad_token with token type error and the same
\* fixed `Token too large` text whatever its characters are.
C10_FixedDiagnostic ==
  (LexedIden /\ Len(src[Len(src)]) > 79) =>
    /\ lexer_status = "bad_token"
    /\ token = [type |-> "error", text |-> "Token too large: ..."]

\* C10, amended: such an identifier or tag gives bad_token, token type
\* error and a text made of the 20 characters `Token too large: ...` and
\* the characters 21 to 79 of the identifier; an identifier of exactly 79
\* characters is returned with status ok and its full text.
C10_LongIdentifier ==
  LexedIden =>
    /\ Len(src[Len(src)]) > 79 =>
         /\ lexer_status = "bad_token"
         /\ token = [type |-> "error",
                     text |-> "Token too large: ..."
                                \o SubSeq(src[Len(src)], 21, 79)]
    /\ Len(src[Len(src)]) = 79 =>
         /\ lexer_status = "ok"
         /\ token = [type |-> IdenType, text |-> src[Len(src)]]

\* a tag of 80 characters was refused, its characters 21 to 79 kept
C10_Witness ==
  /\ LexedIden
  /\ src = <<"struct", Fill("_", 20) \o Fill("b", 60)>>
  /\ lexer_status = "bad_token"
  /\ token.type = "error"
  /\ token.text = "Token too large: ..." \o Fill("b", 59)

(***************************************************************************)
(* C11: words are classified by exact match                                *)
(***************************************************************************)
\* the ten keywords that are no tag keywords, each with its token type
KeywordKinds ==
  {<<"const", "q_const">>, <<"volatile", "q_volatile">>,
   <<"signed", "q_signed">>, <<"unsigned", "q_unsigned">>,
   <<"void", "t_void">>, <<"char", "t_char">>, <<"int", "t_int">>,
   <<"long", "t_long">>, <<"float", "t_float">>, <<"double", "t_double">>}

\* an identifier run that fits the token text
IsRun(l) == IsIdenLexeme(l) /\ Len(l) <= PDXCP_CDCL_MAX_TOKEN_LEN

\* the token the first word of the input is to give
WordToken(s) ==
  IF s[1] \in {"struct", "enum"} THEN [type |-> s[1], text |-> s[2]]
  ELSE IF \E k \in KeywordKinds : k[1] = s[1]
    THEN [type |-> (CHOOSE k \in KeywordKinds : k[1] = s[1])[2], text |-> ""]
  ELSE [type |-> "iden", text |-> s[1]]

\* the input starts with a run, and with a tag after struct or enum
StartsWithWord(s) ==
  /\ Len(s) >= 1
  /\ IsRun(s[1])
  /\ s[1] \in {"struct", "enum"} => Len(s) >= 2 /\ IsRun(s[2])

C13_AlwaysWritten ==
  (pc = "done" /\ errinfo # NULL) => errinfo # StaleErrinfo

\* no field of the error info is what the earlier call left
Replaced(ei) ==
  /\ ei.lexer.text # StaleErrinfo.lexer.text
  /\ ei.parser.text # StaleErrinfo.parser.text
  /\ ei.lexer.status # "bad_token" => ei.lexer.text = ""
  /\ ei.parser.status # "parse_err" => ei.parser.text = ""

\* C13, amended: a call with a non-null error info writes it at most once.
\* A call that returns lexer_err, token_overflow or parse_err has written
\* it exactly once, replacing all four fields; a call that returns ok,
\* in_null or out_null has not written it, and it still holds the contents
\* of the earlier failed call.
C13_WrittenAtMostOnce ==
  /\ [](pc = "done" /\ errinfo # NULL =>
          /\ ret \in {"lexer_err", "token_overflow", "parse_err"} =>
               errinfo # StaleErrinfo /\ Replaced(errinfo)
          /\ ret \in {"ok", "in_null", "out_null"} => errinfo = StaleErrinfo)
  /\ [][errinfo' # errinfo => errinfo = StaleErrinfo /\ Replaced(errinfo')]_vars

\* a parse error was written over the contents of the earlier call
C13_Witness ==
  /\ pc = "done" /\ ret = "parse_err"
  /\ errinfo # NULL
  /\ errinfo.lexer = [status |-> "ok", text |-> ""]
  /\ errinfo.parser = [status |-> "parse_err", text |-> MsgDupTypeConst]

(***************************************************************************)
(* C14: a null error info changes nothing else                             *)
(***************************************************************************)
\* the second call has returned, and exactly one of the two calls was given
\* an error info
NullnessDiffers ==
  /\ pc = "done" /\ call1 # NULL
  /\ (call1.errinfo = NULL) # (errinfo = NULL)

\* C14: two calls of pdxcp_cdcl_stream_parse on copies of the same input,
\* with output streams that behave alike, one call with an error info and
\* one with a null pointer, return the same status, leave the input stream
\* at the same position with the same character pushed back, and write the
\* same output.
C14_NullErrinfoChangesNothing ==
  NullnessDiffers =>
    /\ ret = call1.ret
    /\ in = call1.in
    /\ out = call1.out

\* a parse error met with and without an error info: parse_err is returned
\* both times, after the same output
C14_Witness ==
  /\ NullnessDiffers
  /\ errinfo = NULL
  /\ call1.errinfo.parser.text = "Incomplete declaration for identifier x"
  /\ ret = "parse_err" /\ call1.ret = "parse_err"
  /\ out.text = "x:\n" /\ call1.out.text = "x:\n"
  /\ in.pos = call1.in.pos /\ in.pos > 0

(***************************************************************************)
(* C15: messages longer than the parser text                               *)
(***************************************************************************)
\* pdxcp_cdcl_write_errinfo has written a parse error with the message
\* src[1] into an error info
WroteParseErr ==
  /\ pc = "written" /\ errinfo # NULL
  /\ parser_status = "parse_err" /\ src # <<>>

\* C15: a parse-error message of more than 255 characters is stored as its
\* first 255 characters with the parser status err_text_too_long; a
\* message of at most 255 characters is stored whole with the parser status
\* parse_err; no stored text is longer than 255 characters.
C15_LongMessageCut ==
  /\ (pc = "written" /\ errinfo # NULL) =>
       Len(errinfo.parser.text) <= PDXCP_CDCL_PARSER_ERROR_TEXT_LEN
  /\ WroteParseErr =>
       errinfo.parser =
         IF Len(src[1]) > 255
           THEN [status |-> "err_text_too_long", text |-> SubSeq(src[1], 1, 255)]
           ELSE [status |-> "parse_err", text |-> src[1]]

\* a message of 256 characters was cut to 255 and reported as too long
C15_Witness ==
  /\ WroteParseErr
  /\ Len(src[1]) = 256
  /\ errinfo.parser.status = "err_text_too_long"
  /\ Len(errinfo.parser.text) = 255

(***************************************************************************)
(* C16: more tokens before the identifier than the stack holds             *)
(***************************************************************************)
\* the first n lexemes of s are there and are tokens to be pushed: none is
\* an identifier, none is refused by the lexer
PrefixOf(s, n) ==
  Len(s) >= n /\ \A i \in 1..n : s[i] \notin IdenLex \cup BadLex

\* the token of a lexeme that is pushed
PrefixToken(l) ==
  IF l = "*" THEN [type |-> "star", text |-> ""]
  ELSE IF l = "(" THEN [type |-> "lparen", text |-> ""]
  ELSE WordToken(<<l>>)

\* C16: a call on non-null streams returns token_overflow exactly when the
\* first 21 tokens of the input are read without lexer error and none is
\* an identifier.  The stack then holds the first 20 tokens, nothing was
\* written to the output, and the error info holds the parser status
\* token_overflow, the lexer status ok and empty texts.  While the
\* identifier has up to 20 tokens before it, all of them are on the stack
\* when it is read.
C16_OverflowAtToken21 ==
  /\ (pc = "done" /\ in # NULL /\ out # NULL) =>
       (ret = "token_overflow"
          <=> PrefixOf(src, PDXCP_CDCL_PARSER_STACK_SIZE + 1))
  /\ (pc = "done" /\ ret = "token_overflow") =>
       /\ stack = [i \in 1..PDXCP_CDCL_PARSER_STACK_SIZE |-> PrefixToken(src[i])]
       /\ out = NewOut
       /\ ncalls = PDXCP_CDCL_PARSER_STACK_SIZE + 1
       /\ errinfo # NULL =>
            errinfo = [lexer |-> [status |-> "ok", text |-> ""],
                       parser |-> [status |-> "token_overflow", text |-> ""]]
  /\ (pc = "iden" /\ FitsStack(src)) => Len(stack) = IdenAt(src) - 1

\* 21 '*' and no identifier: the 21st could not be pushed
C16_Witness ==
  /\ pc = "done" /\ ret = "token_overflow"
  /\ src = Repeat("*", 21) \o <<"x", ";">>
  /\ Len(stack) = 20
  /\ token.type = "star"
  /\ errinfo # NULL /\ errinfo.parser.status = "token_overflow"

(***************************************************************************)
(* C17: the token stack stays within its bounds                            *)
(***************************************************************************)
\* C17: in every state of a call the token stack holds between 0 and 20
\* tokens; a step that adds a token adds the token just read on top of a
\* stack of fewer than 20, and a step that takes one away takes the top of
\* a stack that is not empty; the resolution routines look at the top
\* only while tokens are left.
C17_StackWithinBounds ==
  /\ [](Len(stack) \in 0..PDXCP_CDCL_PARSER_STACK_SIZE)
  /\ [][Len(stack') > Len(stack) =>
          /\ Len(stack) < PDXCP_CDCL_PARSER_STACK_SIZE
          /\ stack' = Append(stack, token')]_vars
  /\ [][Len(stack') < Len(stack) =>
          /\ Len(stack) >= 1
          /\ stack' = SubSeq(stack, 1, Len(stack) - 1)
          /\ pc \in {"ptrs", "type"}]_vars
  /\ [][(pc \in {"ptrs", "type"} /\ stack = <<>>) => stack' = <<>>]_vars

\* 20 tokens were pushed and all of them popped again
C17_Witness ==
  /\ pc = "done" /\ ret = "ok"
  /\ IdenAt(src) = PDXCP_CDCL_PARSER_STACK_SIZE + 1
  /\ stack = <<>>
  /\ ncalls = PDXCP_CDCL_PARSER_STACK_SIZE + 2

(***************************************************************************)
(* C18: lexer errors met by the parser                                     *)
(***************************************************************************)
\* the last pdxcp_cdcl_get_token call of the parse returned an error
LexerFailed == lexer_status \notin {"ok", Uninit}

\* C18: once a pdxcp_cdcl_get_token call of a parse has returned a status
\* other than ok, a non-null error info holds that lexer status, the text
\* of the bad token as lexer text when the status is bad_token and an
\* empty lexer text otherwise, the parser status lexer_err and an empty
\* parser text; no further token is read, and pdxcp_cdcl_stream_parse
\* returns lexer_err (the final newline being written).
C18_LexerErrorWrapped ==
  /\ [](LexerFailed /\ errinfo # NULL =>
          /\ errinfo.lexer.status = lexer_status
          /\ errinfo.lexer.text =
               (IF lexer_status = "bad_token" THEN token.text ELSE "")
          /\ errinfo.parser = [status |-> "lexer_err", text |-> ""])
  /\ [](LexerFailed /\ pc = "done" =>
          /\ ret \in {"lexer_err", "out_err"}
          /\ ret = "out_err" => out.err)
  /\ [][LexerFailed => UNCHANGED <<lexer_status, token, in, ncalls>>]_vars

\* a character that starts no token stood after the identifier
C18_Witness ==
  /\ pc = "done" /\ ret = "lexer_err"
  /\ src = <<"int", "x", "@">>
  /\ errinfo # NULL
  /\ errinfo.lexer = [status |-> "bad_token",
                       text |-> "Unknown character token '@'"]
  /\ errinfo.parser = [status |-> "lexer_err", text |-> ""]
  /\ out.text = "x:\n"

(***************************************************************************)
(* C19: parsing a declaration a second time                                *)
(***************************************************************************)
\* the second of two calls has returned; both had a fresh copy of the
\* input and an output stream that took every write
BothReturned ==
  /\ pc = "done" /\ call1 # NULL
  /\ out # NULL /\ ~out.err /\ ~call1.out.err

StartsNoToken(c) ==
  /\ c # EOF
  /\ ~isspace(c)
  /\ ~isalnum(c)
  /\ c \notin {"_", "(", ")", "[", "]", ",", "/", "*", ";"}

\* the kinds of token other than error
TokenKinds ==
  {"lparen", "rparen", "langle", "rangle", "comma", "slash", "star",
   "semicolon", "struct", "enum", "iden", "num", "q_const", "q_volatile",
   "q_signed", "q_unsigned", "t_void", "t_char", "t_int", "t_long",
   "t_float", "t_double"}

\* C20: whenever pdxcp_cdcl_get_token returned bad_token the token type is
\* error and the token text is not empty, and whenever it returned ok the
\* token type is one of the kinds other than error; a call that finds,
\* after the whitespace, a character c that starts no token returns
\* bad_token with the text `Unknown character token 'c'`.
C20_BadTokenDiagnosed ==
  /\ [](lexer_status = "bad_token" =>
          (token.type = "error" /\ token.text # ""))
  /\ [](lexer_status = "ok" => token.type \in TokenKinds)
  /\ [][(pc = "lex" /\ StartsNoToken(SkipSpace(in).c)) =>
          /\ lexer_status' = "bad_token"
          /\ token' = [type |-> "error",
                       text |-> "Unknown character token '"
                                  \o SkipSpace(in).c \o "'"]]_vars

\* an identifier was returned with status ok, then the '#' after it was
\* refused with its diagnostic
C20_Witness ==
  /\ pc = "lex_done"
  /\ src = <<"x", "#">>
  /\ ncalls = 2
  /\ lexer_status = "bad_token"
  /\ token = [type |-> "error", text |-> "Unknown character token '#'"]

(***************************************************************************)
(* C21: adding bytes one at a time and all at once                         *)
(***************************************************************************)
\* SingleAddTest has added every byte of the input and the one call of
\* MultiAddTest has returned true
BothAdded ==
  /\ pc = "test"
  /\ vec.size = Len(input)
  /\ \A i \in 1..Len(bv_ret) : bv_ret[i].ok
  /\ \E i \in 1..Len(bv_ret) : bv_ret[i].test = "multi"

\* C21: for every byte string, adding its bytes to a freshly initialised
\* byte vector one at a time with pdxcp_bvector_add and adding them with a
\* single pdxcp_bvector_add_n call leave the two vectors with the same size
\* and the same capacity (no call failing for lack of memory).
C21_SameSizeAndCapacity ==
  BothAdded => (vec.size = vec_n.size /\ vec.capacity = vec_n.capacity)

(***************************************************************************)
(* C22: size, capacity and the stored bytes of a byte vector               *)
(***************************************************************************)
\* 16 times a power of two
RECURSIVE IsExpandSize(_)
IsExpandSize(n) ==
  IF n = 16 THEN TRUE
  ELSE IF n < 16 \/ n % 2 = 1 THEN FALSE
  ELSE IsExpandSize(n \div 2)

\* the step is a call of the given name with the given result
BvStep(name, ok) ==
  /\ Len(bv_ret') = Len(bv_ret) + 1
  /\ bv_ret'[Len(bv_ret')] = [call |-> name, ok |-> ok]

\* C22: after pdxcp_bvector_init and any calls of pdxcp_bvector_expand,
\* pdxcp_bvector_add and pdxcp_bvector_add_n, successful or failed, size is
\* at most capacity and capacity is 0 or 16 times a power of two; a
\* successful expand makes a capacity of 0 into 16 and doubles any other,
\* and a failed call leaves size and the stored bytes as they were.
C22_SizeWithinCapacity ==
  /\ [](pc = "bvector" =>
          /\ vec.size <= vec.capacity
          /\ vec.size = Len(vec.data)
          /\ (vec.capacity = 0 \/ IsExpandSize(vec.capacity)))
  /\ [][BvStep("expand", TRUE) =>
          /\ vec'.capacity = IF vec.capacity = 0 THEN 16 ELSE 2 * vec.capacity
          /\ vec'.size = vec.size /\ vec'.data = vec.data]_vars
  /\ [][\A name \in {"expand", "add", "add_n"} :
          BvStep(name, FALSE) =>
            (vec'.size = vec.size /\ vec'.data = vec.data)]_vars

\* a pdxcp_bvector_add_n call that failed after its first expansion, then
\* an expand that doubled the capacity and an add
C22_Witness ==
  /\ pc = "bvector"
  /\ bv_ret = <<[call |-> "add_n", ok |-> FALSE],
                [call |-> "expand", ok |-> TRUE],
                [call |-> "add", ok |-> TRUE]>>
  /\ vec = [data |-> "a", size |-> 1, capacity |-> 32]

(***************************************************************************)
(* C23: the lockable getter and setter under several threads               *)
(***************************************************************************)
\* thread t is about to return 0 from the getter
GetDone(t) ==
  thr[t].pc = "return" /\ thr[t].call = "get" /\ thr[t].ret = 0

EntersWithNull(t) ==
  /\ thr[t].pc = "idle" /\ thr'[t].pc # "idle"
  /\ IF thr'[t].call = "get" THEN ~thr'[t].lk \/ ~thr'[t].outp
                              ELSE ~thr'[t].lk

\* C24: the getter returns -EINVAL (-22) when the lockable or the output
\* address is null and the setter when the lockable is null, and only
\* then; the mutex is not locked and neither the stored value nor the
\* output is changed.  When pthread_mutex_lock fails the call returns the
\* negated error and changes neither.
C24_NullArgumentsRefused ==
  /\ [][\A t \in Threads :
          EntersWithNull(t) =>
            /\ thr'[t].pc = "return" /\ thr'[t].ret = -22
            /\ lockable' = lockable
            /\ thr'[t].out = thr[t].out]_vars
  /\ [][\A t \in Threads :
          (thr[t].pc = "idle" /\ thr'[t].pc = "return") => EntersWithNull(t)]_vars
  /\ [][\A t \in Threads :
          (thr[t].pc = "lock" /\ thr'[t].pc \notin {"lock", "access"}) =>
            /\ thr'[t].pc = "return"
            /\ thr'[t].status \in {22, 11, 35}
            /\ thr'[t].ret = 0 - thr'[t].status
            /\ lockable' = lockable
            /\ thr'[t].out = thr[t].out]_vars
  /\ [][\A t \in Threads :
          (thr[t].pc = "return" /\ thr'[t].pc = "idle") =>
            (lockable' = lockable /\ thr'[t].out = thr[t].out)]_vars

\* a getter is returning -EINVAL for its null output address and a setter
\* the negated EDEADLK of its lock; the value and the mutex are untouched
C24_Witness ==
  /\ pc = "lockable"
  /\ thr[1].pc = "return" /\ thr[1].call = "get"
  /\ thr[1].lk /\ ~thr[1].outp /\ thr[1].ret = -22
  /\ thr[2].pc = "return" /\ thr[2].call = "set" /\ thr[2].in = 1
  /\ thr[2].status = 35 /\ thr[2].ret = -35
  /\ lockable = [value |-> 0, mutex |-> 0]

(***************************************************************************)
(* C25: the end of a block comment                                         *)
(***************************************************************************)
\* the input is one text that starts with a closed block comment
StartsWithComment ==
  /\ Len(src) = 1 /\ Len(src[1]) >= 4
  /\ SubSeq(src[1], 1, 2) = "/*"
  /\ BlockEnd(src[1], 3) # 0

\* the text after the first star and slash that follow the opening
AfterClose == SubSeq(src[1], BlockEnd(src[1], 3) + 1, Len(src[1]))

\* C25: after the opening of a block comment the lexer skips exactly
\* through the first star and slash that follow, also when the body ends
\* in two or more stars: the first call returns the token that follows the
\* comment (an identifier, a star) and end of input if nothing follows.
C25_CommentEndsAtFirstClose ==
  (ncalls = 1 /\ StartsWithComment) =>
    /\ AfterClose = "" => lexer_status = "fgetc_eof"
    /\ AfterClose \in {"a", " a", "\na"} =>
         (lexer_status = "ok" /\ token = [type |-> "iden", text |-> "a"])
    /\ AfterClose = "\nab" =>
         (lexer_status = "ok" /\ token = [type |-> "iden", text |-> "ab"])
    /\ AfterClose \in {"*", " *"} =>
         (lexer_status = "ok" /\ token = [type |-> "star", text |-> ""])

(***************************************************************************)
(* C26: one character of pushback is enough                                *)
(***************************************************************************)
\* C26: during any sequence of pdxcp_cdcl_get_token calls on one stream the
\* lexer never pushes a character back while a character pushed back
\* earlier is still unread: no call ends in ungetc_fail and the stream
\* holds at most one pushed-back character, also after the second
\* identifier read of a struct or enum tag.
C26_OnePushbackAtMost ==
  /\ lexer_status # "ungetc_fail"
  /\ in # NULL => Len(in.pb) <= 1

\* the tag of a struct was read by the second identifier read and the ';'
\* that ended it is the one character pushed back
C26_Witness ==
  /\ pc = "lex"
  /\ src = <<"struct", "x", ";">>
  /\ ncalls = 1
  /\ lexer_status = "ok" /\ token = [type |-> "struct", text |-> "x"]
  /\ in.pb = <<";">>

(***************************************************************************)
(* C27: the character after an identifier and after a slash                *)
(***************************************************************************)
\* the bytes of the input
Text == Join(src)

\* the length of the longest run of identifier characters t starts with
RunLen(t) ==
  CHOOSE n \in 0..Len(t) :
    /\ \A i \in 1..n : IsWordChar(CharAt(t, i))
    /\ n < Len(t) => ~IsWordChar(CharAt(t, n + 1))

\* the input starts with an identifier or keyword run that is a token
StartsWithRun ==
  /\ Len(Text) >= 1
  /\ IsRun(SubSeq(Text, 1, RunLen(Text)))
  /\ SubSeq(Text, 1, RunLen(Text)) \notin {"struct", "enum"}

\* the input starts with a slash that starts no comment
StartsWithSlash ==
  /\ Len(Text) >= 1 /\ CharAt(Text, 1) = "/"
  /\ Len(Text) >= 2 => CharAt(Text, 2) \notin {"/", "*"}

\* what the next read of the stream finds: the character pushed back, then
\* the rest of the buffer
Unread(f) ==
  (IF f.pb = <<>> THEN "" ELSE f.pb[1]) \o SubSeq(f.buf, f.pos + 1, Len(f.buf))

PoppedLex ==
  IF IdenAt(src) > Len(stack) + 1
    THEN {src[i] : i \in (Len(stack) + 1)..(IdenAt(src) - 1)}
    ELSE {}

\* stream_parse_type is about to look at a token of this type
TypeLooksAt(type) ==
  /\ pc = "type"
  /\ ~PDXCP_CDCL_TOKEN_STACK_EMPTY(stack)
  /\ PDXCP_CDCL_TOKEN_STACK_HEAD(stack).type = type

\* the step ends the resolution with parse_err and this message
FailsWith(text) ==
  /\ pc' = "finalize"
  /\ parser_status' = "parse_err"
  /\ errinfo # NULL => errinfo'.parser = [status |-> "parse_err", text |-> text]

MsgRequalify(x, y) ==
  "Type already qualified as " \o x \o ", cannot re-qualify as " \o y

\* C28: in stream_parse_type, a `signed` popped after a `signed` has been
\* recorded fails with parse_err and "Duplicate signed type qualifier", and
\* likewise a second `unsigned`; a `signed` popped after an `unsigned`, or an
\* `unsigned` popped after a `signed`, fails with parse_err and
\* "Type already qualified as X, cannot re-qualify as Y".
C28_SignsExcludeEachOther ==
  [][/\ (TypeLooksAt("q_signed") /\ "signed" \in PoppedLex)
          => FailsWith(MsgDupSigned)
     /\ (TypeLooksAt("q_unsigned") /\ "unsigned" \in PoppedLex)
          => FailsWith(MsgDupUnsigned)
     /\ (TypeLooksAt("q_signed") /\ PoppedLex \cap {"signed", "unsigned"}
                                      = {"unsigned"})
          => FailsWith(MsgRequalify("unsigned", "signed"))
     /\ (TypeLooksAt("q_unsigned") /\ PoppedLex \cap {"signed", "unsigned"}
                                        = {"signed"})
          => FailsWith(MsgRequalify("signed", "unsigned"))]_vars

(***************************************************************************)
(* C29: sign qualifiers with a type that takes none                        *)
(***************************************************************************)
BeginsWith(s, p) == Len(s) >= Len(p) /\ SubSeq(s, 1, Len(p)) = p

HoldsText(s, p) ==
  \E i \in 1..(Len(s) - Len(p) + 1) : SubSeq(s, i, i + Len(p) - 1) = p

Unsigned(s) == Without(Without(s, "signed"), "unsigned")

\* a plain declaration with one sign qualifier in its type part and a base
\* type that is not char, int or long
IsSignedOther(s) ==
  /\ Count(s, "signed") + Count(s, "unsigned") = 1
  /\ FirstIn(s, {"signed", "unsigned"}) < FirstIn(s, {"*"} \cup IdenLex)
  /\ IsPlainDecl(Unsigned(s))
  /\ Unsigned(s)[FirstIn(Unsigned(s), BaseLex)] \notin {"char", "int", "long"}

MsgOnlyBegin == "Only char, int, or long can be signed or unsigned"

\* C29: for a declaration with `signed` or `unsigned` and a base type of
\* void, float, double, struct or enum, pdxcp_cdcl_stream_parse returns
\* parse_err with a message that begins "Only char, int, or long can be
\* signed or unsigned", and the output holds neither the sign qualifier nor
\* the base type.
C29_SignNeedsCharIntLong ==
  (Returned /\ IsSignedOther(src)) =>
    /\ ret = "parse_err"
    /\ errinfo # NULL =>
         /\ errinfo.parser.status = "parse_err"
         /\ BeginsWith(errinfo.parser.text, MsgOnlyBegin)
    /\ ~HoldsText(out.text, " signed")
    /\ ~HoldsText(out.text, " unsigned")
    /\ ~HoldsText(out.text, " " \o src[FirstIn(src, BaseLex)])

(***************************************************************************)
(* C30: one base type, no more and no less                                 *)
(***************************************************************************)
\* stream_parse_type is about to look at a base-type token
TypeLooksAtBase ==
  /\ pc = "type"
  /\ ~PDXCP_CDCL_TOKEN_STACK_EMPTY(stack)
  /\ PDXCP_CDCL_TOKEN_STACK_HEAD(stack).type \in TypeTokenTypes

\* C30: in stream_parse_type, a base-type token (struct, enum, void, char,
\* int, long, float, double) popped after another has been recorded fails
\* with parse_err and "Type <second> provided when identifier already
\* specified as <first>"; when the stack is exhausted and no base-type token
\* has been recorded, as in `signed x;`, the resolution fails with parse_err
\* and "Identifier missing required type".
C30_OneBaseType ==
  [][/\ (TypeLooksAtBase /\ PoppedLex \cap BaseLex # {}) =>
          /\ type_token.type \in TypeTokenTypes
          /\ FailsWith(MsgTypeTwice(PDXCP_CDCL_TOKEN_STACK_HEAD(stack).type,
                                    type_token.type))
     /\ (pc = "type" /\ PDXCP_CDCL_TOKEN_STACK_EMPTY(stack)
           /\ PoppedLex \cap BaseLex = {}) =>
          FailsWith(MsgMissingType)]_vars

(***************************************************************************)
(* C31: one const and one volatile at each level                           *)
(***************************************************************************)
\* the position of the token that ends stream_parse_ptrs: the last one
\* before the identifier that is no qualifier, '(' or '*'; 0 if none
PtrsEndAt == LastNotIn(SubSeq(src, 1, IdenAt(src) - 1), PtrLex)

\* the lexemes popped by stream_parse_ptrs since the last '*' it popped
PendingLex ==
  {src[i] : i \in {j \in (Len(stack) + 1)..(IdenAt(src) - 1) :
                     \A k \in (Len(stack) + 1)..j : src[k] # "*"}}

\* the lexemes popped by stream_parse_type
TypePoppedLex == {src[i] : i \in (Len(stack) + 1)..PtrsEndAt}

\* stream_parse_ptrs is about to look at a token of this type
PtrsLooksAt(type) ==
  /\ pc = "ptrs"
  /\ ~PDXCP_CDCL_TOKEN_STACK_EMPTY(stack)
  /\ PDXCP_CDCL_TOKEN_STACK_HEAD(stack).type = type

\* the step pops the token and the resolution goes on
Accepted ==
  /\ pc' = pc
  /\ stack' = PDXCP_CDCL_TOKEN_STACK_POP(stack)
  /\ errinfo' = errinfo

\* C31: in stream_parse_ptrs a `const` (`volatile`) popped when another has
\* been popped since the last `*` fails with parse_err and "Duplicate pointer
\* const qualifier" ("Duplicate pointer volatile qualifier"), and one popped
\* when none has been popped since the last `*` is accepted; in
\* stream_parse_type a second `const` (`volatile`) fails with parse_err and
\* "Duplicate type const qualifier" ("Duplicate type volatile qualifier").
C31_OneQualifierPerLevel ==
  [][/\ PtrsLooksAt("q_const") =>
          IF "const" \in PendingLex THEN FailsWith(MsgDupPtrConst)
          ELSE Accepted
     /\ PtrsLooksAt("q_volatile") =>
          IF "volatile" \in PendingLex THEN FailsWith(MsgDupPtrVolatile)
          ELSE Accepted
     /\ (TypeLooksAt("q_const") /\ "const" \in TypePoppedLex) =>
          FailsWith(MsgDupTypeConst)
     /\ (TypeLooksAt("q_volatile") /\ "volatile" \in TypePoppedLex) =>
          FailsWith(MsgDupTypeVolatile)]_vars

\* a volatile has been accepted at two pointer levels and the type's second
\* volatile refused
C31_Witness ==
  /\ Returned
  /\ src = <<"volatile", "const", "volatile", "int", "*", "volatile", "*",
             "volatile", "x", ";">>
  /\ out.text = "x: volatile pointer to volatile pointer to\n"
  /\ ret = "parse_err"
  /\ errinfo # NULL /\ errinfo.parser.text = MsgDupTypeVolatile

(***************************************************************************)
(* C32: what is written for a '*'                                          *)
(***************************************************************************)
\* the qualifiers among these lexemes, const first
QualTextOf(S) ==
  (IF "const" \in S THEN " const" ELSE "")
    \o (IF "volatile" \in S THEN " volatile" ELSE "")

\* the text of s after its first characters p
AfterText(s, p) == SubSeq(s, Len(p) + 1, Len(s))

\* what the step has appended to the output
Appended == SubSeq(out'.text, Len(out.text) + 1, Len(out'.text))

\* C32: when stream_parse_ptrs pops a `*` and its writes succeed, it appends
\* to the output ` const` if a const has been popped since the last `*`,
\* then ` volatile` if a volatile has been, then ` pointer to`, whatever the
\* order of the two in the source; and the qualifiers stream_parse_type
\* writes are those it has popped itself, none of a pointer level.
C32_QualifiersThenPointer ==
  [][/\ (PtrsLooksAt("star") /\ pc' = "ptrs") =>
          /\ BeginsWith(out'.text, out.text)
          /\ Appended = QualTextOf(PendingLex) \o " pointer to"
     /\ (pc = "type" /\ PDXCP_CDCL_TOKEN_STACK_EMPTY(stack)
           /\ type_token.type # "error" /\ parser_status' # "out_err") =>
          /\ BeginsWith(out'.text, out.text)
          /\ BeginsWith(Appended, QualTextOf(TypePoppedLex))
          /\ ~HoldsText(AfterText(Appended, QualTextOf(TypePoppedLex)),
                        " const")
          /\ ~HoldsText(AfterText(Appended, QualTextOf(TypePoppedLex)),
                        " volatile")]_vars

\* `* volatile const` has been written as a const volatile pointer, and the
\* level before it and the type without qualifier
C32_Witness ==
  /\ Returned
  /\ src = <<"int", "*", "*", "volatile", "const", "x", ";">>
  /\ ret = "ok"
  /\ out.text = "x: const volatile pointer to pointer to int\n"

(***************************************************************************)
(* C33: a qualifier before a token that is no part of a pointer            *)
(***************************************************************************)
PtrTokenTypes == {"q_const", "q_volatile", "lparen", "star"}

\* stream_parse_ptrs has just popped a qualifier and is about to look at a
\* token that is no qualifier, '(' or '*'
QualifierThenOther ==
  /\ pc = "ptrs"
  /\ ~PDXCP_CDCL_TOKEN_STACK_EMPTY(stack)
  /\ PDXCP_CDCL_TOKEN_STACK_HEAD(stack).type \notin PtrTokenTypes
  /\ Len(stack) + 1 < IdenAt(src)
  /\ src[Len(stack) + 1] \in CvLex

UnexpectedIn(tok, where) ==
  "Unexpected token type pdxcp_cdcl_token_type_" \o tok.type
    \o " with text \"" \o tok.text \o "\" when parsing " \o where

\* C33: when stream_parse_ptrs has popped `const` or `volatile` and the next
\* token on the stack is not `const`, `volatile`, `(` or `*`, the parse fails
\* with parse_err and "Unexpected token type <kind> with text "<text>" when
\* parsing pointers", whatever the counts of parentheses; stream_parse_type
\* is not entered.
C33_QualifierBeforeOther ==
  [][QualifierThenOther =>
       FailsWith(UnexpectedIn(PDXCP_CDCL_TOKEN_STACK_HEAD(stack),
                              "pointers"))]_vars

\* `int const ( x ;`: the qualifier is reported, not the open parenthesis
C33_Witness ==
  /\ Returned
  /\ src = <<"int", "const", "(", "x", ";">>
  /\ ret = "parse_err"
  /\ stage = "ptrs"
  /\ errinfo # NULL
  /\ errinfo.parser.text =
       "Unexpected token type pdxcp_cdcl_token_type_t_int with text \"\" when parsing pointers"

(***************************************************************************)
(* C34: the token that ends the pointers is kept for the type              *)
(***************************************************************************)
\* the token types stream_parse_type has a case for
TypeCaseTypes ==
  {"q_const", "q_volatile", "q_signed", "q_unsigned"} \cup TypeTokenTypes

\* stream_parse_type is about to look at a token it has no case for
TypeLooksAtOther ==
  /\ pc = "type"
  /\ ~PDXCP_CDCL_TOKEN_STACK_EMPTY(stack)
  /\ PDXCP_CDCL_TOKEN_STACK_HEAD(stack).type \notin TypeCaseTypes

\* C34: when stream_parse_ptrs returns ok the stack is left as it is, with
\* the token that ended the loop (the last token before the identifier that
\* is no qualifier, `(` or `*`) on top, and stream_parse_type starts from
\* it; a token stream_parse_type has no case for, such as a `[`, fails with
\* parse_err and "Unexpected token type <kind> with text "<text>" when
\* parsing identifier type".
C34_EndingTokenKept ==
  [][/\ (pc = "ptrs" /\ pc' = "type") =>
          /\ stack' = stack
          /\ Len(stack) = PtrsEndAt
          /\ ~PDXCP_CDCL_TOKEN_STACK_EMPTY(stack)
          /\ PDXCP_CDCL_TOKEN_STACK_HEAD(stack).type \notin PtrTokenTypes
     /\ TypeLooksAtOther =>
          FailsWith(UnexpectedIn(PDXCP_CDCL_TOKEN_STACK_HEAD(stack),
                                 "identifier type"))]_vars

\* `struct my_struct * [ def ;`: the bracket ends stream_parse_ptrs at once
\* and is reported by stream_parse_type
C34_Witness ==
  /\ Returned
  /\ src = <<"struct my_struct", "*", "[", "def", ";">>
  /\ ret = "parse_err"
  /\ stage = "type"
  /\ out.text = "def:\n"
  /\ errinfo # NULL
  /\ errinfo.parser.text =
       "Unexpected token type pdxcp_cdcl_token_type_langle with text \"\" when parsing identifier type"

(***************************************************************************)
(* C35: runs of digits                                                     *)
(***************************************************************************)
\* the length of the longest run of digits t starts with
DigitLen(t) ==
  CHOOSE n \in 0..Len(t) :
    /\ \A i \in 1..n : isdigit(CharAt(t, i))
    /\ n < Len(t) => ~isdigit(CharAt(t, n + 1))

\* a call is made with the stream at a run of digits that fits the token
\* text
CalledAtDigits ==
  /\ pc = "lex"
  /\ DigitLen(Unread(in)) >= 1
  /\ DigitLen(Unread(in)) <= PDXCP_CDCL_MAX_TOKEN_LEN

\* the call returns the run t starts with as a number and leaves what
\* follows it
RunIsNumber(t) ==
  /\ lexer_status' = "ok"
  /\ token' = [type |-> "num", text |-> SubSeq(t, 1, DigitLen(t))]
  /\ Unread(in') = SubSeq(t, DigitLen(t) + 1, Len(t))

\* C35 as stated: a pdxcp_cdcl_get_token call made with the stream at a run
\* of at most 79 decimal digits, `0` alone and runs that begin with `0`
\* included, returns ok and a number token whose text is the run, and leaves
\* the character after the run for the next call.
C35_DigitRunIsNumber == [][CalledAtDigits => RunIsNumber(Unread(in))]_vars

\* C35, amended: a pdxcp_cdcl_get_token call made with the stream at a run
\* of at most 79 decimal digits that does not begin with `0` returns ok and
\* a number token whose text is the run, and leaves the character after the
\* run for the next call; made at a `0` followed by a character other than
\* `x` and `X` it returns bad_token and an error token with the
\* malformed-number text, and made at a `0` that ends the input it returns
\* end of input.
C35_NonZeroRunIsNumber ==
  [][/\ (CalledAtDigits /\ CharAt(Unread(in), 1) # "0") =>
          RunIsNumber(Unread(in))
     /\ (pc = "lex" /\ Len(Unread(in)) >= 2 /\ CharAt(Unread(in), 1) = "0"
           /\ CharAt(Unread(in), 2) \notin {"x", "X"}) =>
          /\ lexer_status' = "bad_token"
          /\ token' = [type |-> "error",
                       text |-> "Malformed token read when attempting to parse number"]
     /\ (pc = "lex" /\ Unread(in) = "0") => lexer_status' = "fgetc_eof"]_vars

\* 12 was returned as a number and the ']' after it is what comes next
C35_Witness ==
  /\ pc = "lex"
  /\ src = <<"/", "12", "]">>
  /\ ncalls = 2
  /\ lexer_status = "ok" /\ token = [type |-> "num", text |-> "12"]
  /\ Unread(in) = "]"

(***************************************************************************)
(* C36: what the output holds when the call returns                        *)
(***************************************************************************)
\* the call has returned without having found an identifier: a null stream,
\* or a lexer error or a full stack in stream_parse_to_iden
ReturnedBeforeIden ==
  /\ pc = "done" /\ out # NULL
  /\ iden_token = UninitToken

\* the call has returned after the identifier was found, every write done
ReturnedAfterIden == Returned /\ iden_token # UninitToken

\* s ends with a newline and holds no other
OneNewlineAtEnd(s) ==
  /\ Len(s) >= 1
  /\ \A i \in 1..Len(s) : (CharAt(s, i) = "\n") <=> (i = Len(s))

\* C36: when pdxcp_cdcl_stream_parse returns without having found an
\* identifier (null stream, lexer error or full stack in the prefix scan)
\* nothing has been written to the output; on every other return with all
\* writes done the output starts with the identifier and a colon and ends
\* with a newline, its only one, whatever the status returned.
C36_OutputOnReturn ==
  /\ ReturnedBeforeIden =>
       /\ out = NewOut
       /\ ret \in {"in_null", "lexer_err", "token_overflow"}
  /\ ReturnedAfterIden =>
       /\ BeginsWith(out.text, iden_token.text \o ":")
       /\ OneNewlineAtEnd(out.text)

\* a parse error after a pointer was written: the line is ended all the same
C36_Witness ==
  /\ Returned
  /\ src = <<"const", "const", "int", "*", "x", ";">>
  /\ ret = "parse_err"
  /\ out.text = "x: pointer to\n"

\* a lexer error before the identifier: nothing written
C36_WitnessNothing ==
  /\ ReturnedBeforeIden
  /\ src = <<"int", "*", "@">>
  /\ ret = "lexer_err"
  /\ out.text = ""

(***************************************************************************)
(* C37: the statuses the parser returns                                    *)
(***************************************************************************)
ReturnedStatuses ==
  {"ok", "in_null", "out_null", "lexer_err", "token_overflow", "out_err",
   "parse_err"}

\* C37: the status pdxcp_cdcl_stream_parse returns is one of ok, in_null,
\* out_null, lexer_err, token_overflow, out_err and parse_err, whatever the
\* input and the outcome of the writes (never eof, bad_token, null_err_text
\* or err_text_too_long), and the parser status of the error info is never
\* null_err_text or err_text_too_long.
C37_StatusesReturned ==
  /\ pc = "done" => ret \in ReturnedStatuses
  /\ errinfo # NULL =>
       errinfo.parser.status \notin {"null_err_text", "err_text_too_long"}

\* the longest message has been written whole, with the status parse_err
C37_Witness ==
  /\ pc = "done"
  /\ src = <<LongTag, "const", "x", ";">>
  /\ ret = "parse_err"
  /\ errinfo # NULL
  /\ errinfo.parser.status = "parse_err"
  /\ Len(errinfo.parser.text) > 150
  /\ Len(errinfo.parser.text) < PDXCP_CDCL_PARSER_ERROR_TEXT_LEN

(***************************************************************************)
(* C38: what a return of ok stands for                                     *)
(***************************************************************************)
\* the lexemes read before the identifier
BeforeIden == SubSeq(src, 1, IdenAt(src) - 1)

\* a lexeme that gives one base-type token
IsBaseLexeme(l) ==
  l \in BaseLex \/ BeginsWith(l, "struct ") \/ BeginsWith(l, "enum ")

\* the number of places of s where p stands
Occurrences(s, p) ==
  Cardinality({i \in 1..(Len(s) - Len(p) + 1) : SubSeq(s, i, i + Len(p) - 1) = p})

\* C38: when pdxcp_cdcl_stream_parse has returned ok, the token stack is
\* empty, exactly one base-type token was read before the identifier and it
\* is the type recorded, as many `(` were popped as `)` were read after the
\* identifier, all the `(` read among them, and the output holds one
\* ` pointer to` for each `*` read before the identifier.
C38_OkMeansResolved ==
  (pc = "done" /\ ret = "ok") =>
    /\ PDXCP_CDCL_TOKEN_STACK_EMPTY(stack)
    /\ Cardinality({i \in DOMAIN BeforeIden : IsBaseLexeme(BeforeIden[i])}) = 1
    /\ type_token.type \in TypeTokenTypes
    /\ n_lparen = n_rparen
    /\ n_lparen = Count(BeforeIden, "(")
    /\ n_rparen = CountRun(src, IdenAt(src) + 1, ")")
    /\ Occurrences(out.text, " pointer to") = Count(BeforeIden, "*")

\* int (**(*b)); has been resolved: two parentheses, three pointers
C38_Witness ==
  /\ pc = "done" /\ ret = "ok"
  /\ src = <<"int", "(", "*", "*", "(", "*", "b", ")", ")", ";">>
  /\ n_lparen = 2
  /\ out.text = "b: pointer to pointer to pointer to int\n"

(***************************************************************************)
(* C39: two declarations on one stream                                     *)
(***************************************************************************)
\* the call on the first declaration of the stream has returned
FirstReturned == pc = "done" /\ call1 # NULL /\ call1.first = NULL

\* the call after it on the same stream has returned
NextReturned == pc = "done" /\ call1 # NULL /\ call1.first # NULL

\* C39: a pdxcp_cdcl_stream_parse call that reads a declaration up to its
\* `;` leaves the stream right after that `;`, no character pushed back; a
\* plain declaration is described as it is alone; and the next call on the
\* same stream returns the status, writes the output and leaves the error
\* info that a call on a stream of the rest of the input alone does.
C39_NextDeclarationUntouched ==
  /\ FirstReturned =>
       /\ Unread(in) = Join(AfterFirst)
       /\ in.pb = <<>>
       /\ IsPlainDecl(FirstDecl) =>
            (ret = "ok" /\ out.text = DeclText(FirstDecl, ""))
  /\ NextReturned =>
       /\ ret = call1.ret
       /\ out = call1.out
       /\ errinfo = call1.errinfo

\* two declarations on two lines, each described
C39_Witness ==
  /\ NextReturned
  /\ src = <<"const", "int", "*", "const", "a", ";", "\n",
             "double", "*", "y", ";">>
  /\ call1.first.ret = "ok"
  /\ call1.first.out.text = "a: const pointer to const int\n"
  /\ ret = "ok"
  /\ out.text = "y: pointer to double\n"

(***************************************************************************)
(* C40: every call returns                                                 *)
(***************************************************************************)
\* the characters the stream still holds
Remaining == IF in = NULL THEN 0 ELSE Len(Unread(in))

\* how far a call is from its return, the loops aside
Rank ==
  CASE pc = "call" -> 8
    [] pc = "to_iden" -> 7
    [] pc = "iden" -> 6
    [] pc = "rparen" -> 5
    [] pc = "decl_end" -> 4
    [] pc = "ptrs" -> 3
    [] pc = "type" -> 2
    [] pc = "finalize" -> 1
    [] pc = "lex" -> 1
    [] OTHER -> 0

\* the characters left to read, then the rank, then the tokens left to pop
Variant ==
  (Remaining * 9 + Rank) * (PDXCP_CDCL_PARSER_STACK_SIZE + 1) + Len(stack)

\* C40: every pdxcp_cdcl_stream_parse call, and every run of
\* pdxcp_cdcl_get_token calls up to the first status other than ok, comes to
\* its return; every step on the way either consumes a character of the
\* input, or pops a token off the stack, or moves on to a later part of the
\* call (the prefix scan thus ends at an identifier, a lexer fault or a full
\* stack); a call that returns end-of-input has read the whole input, as
\* one inside an unterminated comment does.
C40_EveryCallReturns ==
  /\ <>(pc \in {"done", "lex_done"})
  /\ [][Variant' < Variant]_vars
  /\ [](pc \in {"done", "lex_done"} /\ lexer_status = "fgetc_eof"
          => Remaining = 0)

\* an unterminated block comment has ended the call with the input
C40_Witness ==
  /\ pc = "lex_done"
  /\ src = <<"/* a">>
  /\ lexer_status = "fgetc_eof"
  /\ Remaining = 0

====
